---- MODULE Spec2Model ----
(***************************************************************************)
(* Model of the code tracer of temporal-debug-go: tracer.New, Tracer.Trace, *)
(* trace.newTrace, trace.run (the stepping loop), the three observation     *)
(* handlers and trace.close.  The debugger backend (delve) and the file     *)
(* system are the environment: every answer they can give is a              *)
(* nondeterministic choice.                                                 *)
(***************************************************************************)
EXTENDS Integers, Sequences, FiniteSets, TLC

VARIABLES
    pc,             \* position of the caller / Tracer.Trace / trace.run
    goos,           \* runtime.GOOS of the build
    config,         \* tracer.Config handed to New
    tracer,         \* the *Tracer built by New (fnPkg, fn)
    state,          \* t.state: the last api.DebuggerState
    events,         \* t.result.Events
    breakpoints,    \* t.breakpoints: breakpoint ID -> handler, file and line
    coroutineNames, \* t.coroutineNames: goroutine ID -> name
    cmds,           \* every command handed to the debugger, in order
    logs,           \* warnings written to t.Log
    runReturn,      \* what trace.run returned: error and the events by then
    ret,            \* what Tracer.Trace / New returned to the caller
    session,        \* the debug session: "none", "open" or "closed"
    tempDir,        \* the temp directory: "none", "created" or "removed"
    nstops,         \* number of stops the target has reported
    last,           \* the loop iteration just executed (stop, commands, events)
    target,         \* the target binary: its source files, their text, its stops
    sourceCache,    \* t.sourceCache: file name -> normalised text
    steps,          \* the calls of the current Trace call to the file system, the
                    \* build and the debugger, in order
    calls,          \* number of Trace calls made on the Tracer
    cli,            \* the trace command: its flags, its outputs, what it returned
    wire            \* kinds written as text (MarshalText) and read back (UnmarshalText)

vars == <<pc, goos, config, tracer, state, events, breakpoints, coroutineNames,
          cmds, logs, runReturn, ret, session, tempDir, nstops, last,
          target, sourceCache, steps, calls, cli, wire>>

\* Largest number of non-exited stops the target reports in one run.
MaxStops == 2

Nil == "nil"

-----------------------------------------------------------------------------
(* Strings: the Go string functions the tracer uses, on TLA+ strings.       *)

Char(s, i) == SubSeq(s, i, i)

HasPrefix(s, prefix) ==
    /\ Len(s) >= Len(prefix)
    /\ SubSeq(s, 1, Len(prefix)) = prefix

HasSuffix(s, suffix) ==
    /\ Len(s) >= Len(suffix)
    /\ SubSeq(s, Len(s) - Len(suffix) + 1, Len(s)) = suffix

\* strings.Index: 0-based index of the first occurrence, -1 if none.
Index(s, sub) ==
    LET hits == {i \in 0..(Len(s) - Len(sub)) : SubSeq(s, i + 1, i + Len(sub)) = sub}
    IN  IF hits = {} THEN -1 ELSE CHOOSE i \in hits : \A j \in hits : i <= j

\* strings.LastIndex: 0-based index of the last occurrence, -1 if none.
LastIndex(s, sub) ==
    LET hits == {i \in 0..(Len(s) - Len(sub)) : SubSeq(s, i + 1, i + Len(sub)) = sub}
    IN  IF hits = {} THEN -1 ELSE CHOOSE i \in hits : \A j \in hits : i >= j

Separator(os) == IF os = "windows" THEN "\\" ELSE "/"

RECURSIVE ReplaceChar(_, _, _)
ReplaceChar(s, old, new) ==
    IF s = "" THEN ""
    ELSE (IF Char(s, 1) = old THEN new ELSE Char(s, 1))
             \o ReplaceChar(SubSeq(s, 2, Len(s)), old, new)

\* filepath.ToSlash: every OS separator becomes "/".
ToSlash(os, path) ==
    IF Separator(os) = "/" THEN path ELSE ReplaceChar(path, Separator(os), "/")

\* filepath.Join of two clean elements.
Join(os, a, b) == a \o Separator(os) \o b

Digits == <<"0", "1", "2", "3", "4", "5", "6", "7", "8", "9">>

IsDigit(c) == \E d \in 1..10 : Digits[d] = c

DigitVal(c) == (CHOOSE d \in 1..10 : Digits[d] = c) - 1

RECURSIVE DigitsVal(_)
DigitsVal(s) ==
    IF s = "" THEN 0
    ELSE DigitsVal(SubSeq(s, 1, Len(s) - 1)) * 10 + DigitVal(Char(s, Len(s)))

\* strconv.ParseInt(s, 10, 64) and strconv.Atoi on short inputs: an optional
\* sign followed by at least one digit, nothing else.
ParseInt(s) ==
    LET signed == s # "" /\ Char(s, 1) \in {"+", "-"}
        body   == IF signed THEN SubSeq(s, 2, Len(s)) ELSE s
        ok     == body # "" /\ \A i \in 1..Len(body) : IsDigit(Char(body, i))
    IN  IF ~ok THEN [ok |-> FALSE, val |-> 0]
        ELSE [ok |-> TRUE,
              val |-> IF signed /\ Char(s, 1) = "-" THEN 0 - DigitsVal(body)
                      ELSE DigitsVal(body)]

intInTrailingParens(str) ==
    LET beginParens == Index(str, "(")
    IN  IF beginParens < 0 \/ ~HasSuffix(str, ")")
        THEN [ok |-> FALSE, val |-> 0]
        ELSE ParseInt(SubSeq(str, beginParens + 2, Len(str) - 1))

-----------------------------------------------------------------------------
(* Configuration and tracer.New.                                            *)

\* A *regexp.Regexp of one of the two shapes the tracer's pattern lists use:
\* `^lit.*` (exact = FALSE) and `^lit$` (exact = TRUE).
Regexp(lit, exact) == [lit |-> lit, exact |-> exact]

MatchString(re, s) == IF re.exact THEN s = re.lit ELSE HasPrefix(s, re.lit)

\* regexp.MatchString for the pattern texts of the implied lists: `^` anchors
\* the start, `$` the end of the text, `\c` is the character c, `.` is any
\* character but a newline, `.*` any run of them, anything else is itself.
RECURSIVE MatchHere(_, _)
MatchHere(re, s) ==
    IF re = "" THEN TRUE
    ELSE IF re = "$" THEN s = ""
    ELSE IF Len(re) >= 2 /\ SubSeq(re, 1, 2) = ".*"
    THEN \E k \in 0..Len(s) :
             /\ \A i \in 1..k : Char(s, i) # "\n"
             /\ MatchHere(SubSeq(re, 3, Len(re)), SubSeq(s, k + 1, Len(s)))
    ELSE IF Len(re) >= 2 /\ Char(re, 1) = "\\"
    THEN /\ s # ""
         /\ Char(s, 1) = Char(re, 2)
         /\ MatchHere(SubSeq(re, 3, Len(re)), SubSeq(s, 2, Len(s)))
    ELSE /\ s # ""
         /\ IF Char(re, 1) = "." THEN Char(s, 1) # "\n" ELSE Char(s, 1) = Char(re, 1)
         /\ MatchHere(SubSeq(re, 2, Len(re)), SubSeq(s, 2, Len(s)))

PatternMatches(re, s) ==
    IF HasPrefix(re, "^") THEN MatchHere(SubSeq(re, 2, Len(re)), s)
    ELSE \E k \in 0..Len(s) : MatchHere(re, SubSeq(s, k + 1, Len(s)))

ImpliedExcludeFuncs ==
    { "^go\\.temporal\\.io/sdk/.*",
      "^go\\.uber\\.org/atomic\\..*",
      "^runtime\\..*",
      "^main\\.main$" }

Config(execution, historyFile, workflowFuncs, hostPort, namespace, retain, exFuncs, exFiles) ==
    [Execution |-> execution, HistoryFile |-> historyFile,
     WorkflowFuncs |-> workflowFuncs, HostPort |-> hostPort, Namespace |-> namespace,
     RetainTempDir |-> retain, ExcludeFuncs |-> exFuncs, ExcludeFiles |-> exFiles]

\* The (GOOS, Config) pairs the model starts from.
Scenarios ==
    { [goos |-> "linux",
       config |-> Config(TRUE, "", <<"w.MyWorkflow">>, "h:1", "ns", FALSE, {}, {})],
      [goos |-> "windows",
       config |-> Config(TRUE, "", <<"w.MyWorkflow">>, "h:1", "ns", TRUE,
                         {Regexp("w.helper", TRUE)}, {Regexp("/w/gen/", FALSE)})],
      [goos |-> "linux",
       config |-> Config(FALSE, "hist.json", <<"w.MyWorkflow">>, "h:1", "ns", FALSE, {}, {})],
      [goos |-> "linux",
       config |-> Config(FALSE, "h.json", <<"g.io/x/w.MyWorkflow">>, "h:1", "ns", FALSE, {}, {})],
      [goos |-> "linux",
       config |-> Config(TRUE, "hist.json", <<"w.MyWorkflow">>, "h:1", "ns", FALSE, {}, {})],
      [goos |-> "linux",
       config |-> Config(FALSE, "", <<"w.MyWorkflow">>, "h:1", "ns", FALSE, {}, {})],
      [goos |-> "linux",
       config |-> Config(TRUE, "", <<"MyWorkflow">>, "h:1", "ns", FALSE, {}, {})],
      [goos |-> "linux",
       config |-> Config(TRUE, "", <<>>, "h:1", "ns", FALSE, {}, {})],
      [goos |-> "linux",
       config |-> Config(TRUE, "", <<"w.A", "w.B">>, "h:1", "ns", FALSE, {}, {})],
      [goos |-> "linux",
       config |-> Config(TRUE, "", <<"w.MyWorkflow">>, "", "ns", FALSE, {}, {})],
      [goos |-> "linux",
       config |-> Config(TRUE, "", <<"w.MyWorkflow">>, "h:1", "", FALSE, {}, {})] }

\* Mutant: New accepts a Config with both an execution and a history file.
NewError_AllowsBoth(c) ==
    IF ~c.Execution /\ c.HistoryFile = "" THEN "must have existing execution or history file"
    ELSE IF Len(c.WorkflowFuncs) # 1 THEN "single workflow function required"
    ELSE IF LastIndex(c.WorkflowFuncs[1], ".") = -1 THEN "workflow function missing dot"
    ELSE ""

\* Mutant: the descriptor is split at its first dot.
NewTracer_FirstDot(c) ==
    [fnPkg |-> SubSeq(c.WorkflowFuncs[1], 1, Index(c.WorkflowFuncs[1], ".")),
     fn |-> SubSeq(c.WorkflowFuncs[1], Index(c.WorkflowFuncs[1], ".") + 2,
                   Len(c.WorkflowFuncs[1]))]

\* tracer.New: the error it returns ("" for none) and the Tracer it builds.
NewError(c) ==
    IF ~c.Execution /\ c.HistoryFile = "" THEN "must have existing execution or history file"
    ELSE IF c.Execution /\ c.HistoryFile # "" THEN "cannot have both execution and history file"
    ELSE IF Len(c.WorkflowFuncs) # 1 THEN "single workflow function required"
    ELSE IF LastIndex(c.WorkflowFuncs[1], ".") = -1 THEN "workflow function missing dot"
    ELSE ""

NewTracer(c) ==
    LET f       == c.WorkflowFuncs[1]
        lastDot == LastIndex(f, ".")
    IN  [fnPkg |-> SubSeq(f, 1, lastDot), fn |-> SubSeq(f, lastDot + 2, Len(f))]

-----------------------------------------------------------------------------
(* The debugger's answers: stop states.                                     *)

\* runtime.GOROOT() of the tracer's build, in the OS's own notation: a plain
\* directory, or a versioned one with a dot in its name.
Native(os, path) == ReplaceChar(path, "/", Separator(os))

GOROOT(os) == IF os = "darwin" THEN "/opt/go/1.2" ELSE Native(os, "/go")

\* An api.Variable.
Var(name, value, children) == [Name |-> name, Value |-> value, Children |-> children]

\* Identifiers the backend hands out for the five breakpoints of newTrace, in
\* placement order, and the identifier of a breakpoint the backend owns itself
\* (delve's unrecovered-panic breakpoint).
BpWorkflowStart == 1
BpProcessEvent == 2
BpReplayCommands == 3
BpCoroutineSpawn == 4
BpEndOfYield == 5
BpBackendOwned == -1
NoBreakpoint == 0

\* Source locations of the target, slash-separated: function, file, line.
Loc(fn, file, line) == [fn |-> fn, file |-> file, line |-> line]

LocUser    == Loc("w.MyWorkflow", "/w/wf.go", 12)
LocEntry   == Loc("w.MyWorkflow", "/w/wf.go", 11)
LocHelper  == Loc("w.helper", "/w/gen/h.go", 3)
LocSdk     == Loc("go.temporal.io/sdk/internal.f", "/m/sdk/internal/w.go", 5)
LocAtomic  == Loc("go.uber.org/atomic.Load", "/m/atomic/a.go", 7)
LocPark    == Loc("runtime.gopark", "/x/runtime/proc.go", 9)
LocGoexit  == Loc("runtime.goexit", "/x/runtime/asm.s", 1)
LocGoexit0 == Loc("runtime.goexit0", "/x/runtime/proc.go", 2)
LocMain    == Loc("main.main", "/t/main.go", 20)
LocStd     == Loc("fmt.Println", "/go/src/fmt/print.go", 4)
LocUnknown == Loc("???", "", 0)
LocFatal   == Loc("runtime.fatalpanic", "/x/runtime/panic.go", 8)

\* A stop state with a current thread.
Stop(os, bp, nip, loc, gid, variables, varsOk) ==
    [Exited |-> FALSE, ExitStatus |-> 0, NextInProgress |-> nip, Breakpoint |-> bp,
     Function |-> loc.fn, File |-> Native(os, loc.file), Line |-> loc.line,
     GoroutineID |-> gid, vars |-> variables, varsOk |-> varsOk]

ExitedState(status) ==
    [Exited |-> TRUE, ExitStatus |-> status, NextInProgress |-> FALSE,
     Breakpoint |-> NoBreakpoint, Function |-> "", File |-> "", Line |-> 0,
     GoroutineID |-> 0, vars |-> <<>>, varsOk |-> TRUE]

\* What FunctionArguments / LocalVariables can show at the marker breakpoints.
EventArg(fields) == <<Var("event", "", <<Var("", "", fields)>>)>>

EventFrames ==
    { EventArg(<<Var("EventId", "3", <<>>), Var("EventType", "T (3)", <<>>)>>),
      EventArg(<<Var("EventType", "T (3)", <<>>), Var("EventId", "x", <<>>)>>),
      EventArg(<<Var("EventId", "4", <<>>), Var("EventType", "T3", <<>>)>>),
      EventArg(<<Var("Attributes", "a", <<>>)>>),
      <<Var("weh", "p", <<>>)>> }

Command(value) == Var("", "", <<Var("", "", <<Var("CommandType", value, <<>>)>>)>>)

CommandFrames ==
    { <<Var("eventCommands", "", <<>>)>>,
      <<Var("eventCommands", "", <<Command("S (1)"), Command("C (5)")>>)>>,
      <<Var("eventCommands", "", <<Command("S (1)"), Command("(x)")>>)>> }

CrtArg(fields) == <<Var("crt", "", <<Var("", "", fields)>>)>>

CrtFrames ==
    { CrtArg(<<Var("name", "my-coroutine", <<>>)>>),
      CrtArg(<<Var("closed", "false", <<>>)>>),
      <<Var("s", "p", <<>>)>> }

\* Every state the debugger may return for a resume command.
RunningStops(os) ==
    {Stop(os, NoBreakpoint, FALSE, l, 1, <<>>, TRUE) :
        l \in {LocUser, LocHelper, LocSdk, LocAtomic, LocPark, LocGoexit, LocGoexit0,
               LocMain, LocStd, LocUnknown}}
    \cup {Stop(os, NoBreakpoint, nip, LocUser, 2, <<>>, TRUE) : nip \in BOOLEAN}
    \cup {Stop(os, BpWorkflowStart, nip, LocEntry, 1, <<>>, TRUE) : nip \in BOOLEAN}
    \cup {Stop(os, BpWorkflowStart, FALSE, LocEntry, 2, <<>>, TRUE)}
    \cup {Stop(os, BpProcessEvent, FALSE, LocSdk, 1, f, TRUE) : f \in EventFrames}
    \cup {Stop(os, BpProcessEvent, TRUE, LocSdk, 1, f, ok) :
            f \in {EventArg(<<Var("EventId", "3", <<>>), Var("EventType", "T (3)", <<>>)>>)},
            ok \in BOOLEAN}
    \cup {Stop(os, BpReplayCommands, FALSE, LocSdk, 1, f, TRUE) : f \in CommandFrames}
    \cup {Stop(os, BpCoroutineSpawn, FALSE, LocSdk, 2, f, TRUE) : f \in CrtFrames}
    \cup {Stop(os, BpCoroutineSpawn, TRUE, LocSdk, 2, f, ok) :
            f \in {CrtArg(<<Var("name", "my-coroutine", <<>>)>>)}, ok \in BOOLEAN}
    \cup {Stop(os, BpEndOfYield, FALSE, LocSdk, 1, <<>>, TRUE)}
    \cup {Stop(os, BpBackendOwned, FALSE, LocFatal, 1, <<>>, TRUE)}

ExitedStops == {ExitedState(0), ExitedState(2)}

\* t.state before the first command has returned.
NoState ==
    [Exited |-> FALSE, ExitStatus |-> 0, NextInProgress |-> FALSE,
     Breakpoint |-> NoBreakpoint, Function |-> "", File |-> "", Line |-> 0,
     GoroutineID |-> 0, vars |-> <<>>, varsOk |-> TRUE]

-----------------------------------------------------------------------------
(* Observation handlers.  Each returns the error ("" for none), the event    *)
(* list and the coroutine-name table it leaves behind.                       *)

HandlerResult(err, evs, names) == [err |-> err, events |-> evs, names |-> names]

ServerEvent(id, type) == [kind |-> "Server", ID |-> id, Type |-> type]
ClientEvent(commands) == [kind |-> "Client", Commands |-> commands]
CodeEvent(pkg, file, line, coroutine) ==
    [kind |-> "Code", Package |-> pkg, File |-> file, Line |-> line, Coroutine |-> coroutine]

\* The inner loop of onProcessEvent over the fields of the event struct.
RECURSIVE EventFields(_, _, _)
EventFields(children, i, event) ==
    IF i > Len(children) THEN [err |-> "", event |-> event]
    ELSE LET child == children[i] IN
         IF child.Name = "EventId" THEN
             LET id == ParseInt(child.Value) IN
             IF ~id.ok THEN [err |-> "invalid event ID", event |-> event]
             ELSE EventFields(children, i + 1, [event EXCEPT !.ID = id.val])
         ELSE IF child.Name = "EventType" THEN
             LET t == intInTrailingParens(child.Value) IN
             IF ~t.ok THEN [err |-> "invalid event type", event |-> event]
             ELSE EventFields(children, i + 1, [event EXCEPT !.Type = t.val])
         ELSE EventFields(children, i + 1, event)

\* The outer loop of onProcessEvent over the function arguments.
RECURSIVE EventArgs(_, _, _)
EventArgs(args, i, event) ==
    IF i > Len(args) THEN [err |-> "", event |-> event]
    ELSE IF args[i].Name = "event" THEN
         LET r == EventFields(args[i].Children[1].Children, 1, event) IN
         IF r.err # "" THEN r ELSE EventArgs(args, i + 1, r.event)
    ELSE EventArgs(args, i + 1, event)

\* Mutant: the event is put at the front of the list.
AppendServer_Prepends(r, evs, names) ==
    IF r.err # "" THEN HandlerResult(r.err, evs, names)
    ELSE HandlerResult("", <<r.event>> \o evs, names)

\* Mutant: an event equal to the last one of the list is not appended again.
AppendServer_Dedup(r, evs, names) ==
    IF r.err # "" THEN HandlerResult(r.err, evs, names)
    ELSE IF evs # <<>> /\ evs[Len(evs)] = r.event THEN HandlerResult("", evs, names)
    ELSE HandlerResult("", Append(evs, r.event), names)

\* The end of onProcessEvent: the event is appended unless a field failed.
AppendServer(r, evs, names) ==
    IF r.err # "" THEN HandlerResult(r.err, evs, names)
    ELSE HandlerResult("", Append(evs, r.event), names)

onProcessEvent(st, evs, names) ==
    IF ~st.varsOk THEN HandlerResult("failed loading vars", evs, names)
    ELSE AppendServer(EventArgs(st.vars, 1, ServerEvent(0, 0)), evs, names)

\* The loop of onReplayCommands over the elements of eventCommands.
RECURSIVE CommandList(_, _, _)
CommandList(children, i, commands) ==
    IF i > Len(children) THEN [err |-> "", commands |-> commands]
    ELSE LET t == intInTrailingParens(children[i].Children[1].Children[1].Value) IN
         IF ~t.ok THEN [err |-> "invalid command type", commands |-> commands]
         ELSE CommandList(children, i + 1, Append(commands, t.val))

RECURSIVE CommandArgs(_, _, _)
CommandArgs(args, i, commands) ==
    IF i > Len(args) THEN [err |-> "", commands |-> commands]
    ELSE IF args[i].Name = "eventCommands" THEN
         LET r == CommandList(args[i].Children, 1, commands) IN
         IF r.err # "" THEN r ELSE CommandArgs(args, i + 1, r.commands)
    ELSE CommandArgs(args, i + 1, commands)

\* Mutant: a batch is appended even when it has no command.
AppendClient_EvenIfEmpty(r, evs, names) ==
    IF r.err # "" THEN HandlerResult(r.err, evs, names)
    ELSE HandlerResult("", Append(evs, ClientEvent(r.commands)), names)

\* The end of onReplayCommands: a batch is appended if it has a command.
AppendClient(r, evs, names) ==
    IF r.err # "" THEN HandlerResult(r.err, evs, names)
    ELSE IF Len(r.commands) > 0
         THEN HandlerResult("", Append(evs, ClientEvent(r.commands)), names)
         ELSE HandlerResult("", evs, names)

onReplayCommands(st, evs, names) ==
    IF ~st.varsOk THEN HandlerResult("failed loading vars", evs, names)
    ELSE AppendClient(CommandArgs(st.vars, 1, <<>>), evs, names)

\* The name populateCoroutineName finds: the first "name" field of the first
\* "crt" argument that has one, if any.
RECURSIVE CrtFields(_, _)
CrtFields(children, i) ==
    IF i > Len(children) THEN [found |-> FALSE, name |-> ""]
    ELSE IF children[i].Name = "name" THEN [found |-> TRUE, name |-> children[i].Value]
    ELSE CrtFields(children, i + 1)

RECURSIVE CrtArgs(_, _)
CrtArgs(args, i) ==
    IF i > Len(args) THEN [found |-> FALSE, name |-> ""]
    ELSE IF args[i].Name = "crt" /\ CrtFields(args[i].Children[1].Children, 1).found
         THEN CrtFields(args[i].Children[1].Children, 1)
    ELSE CrtArgs(args, i + 1)

\* A Go map update: m[k] = v.
MapSet(m, k, v) == [x \in DOMAIN m \cup {k} |-> IF x = k THEN v ELSE m[x]]

\* Mutant: the read ignores the key.
MapGet_AnyKey(m, k) == IF DOMAIN m = {} THEN "" ELSE m[CHOOSE x \in DOMAIN m : TRUE]

\* A Go map read: the zero value for a missing key.
MapGet(m, k) == IF k \in DOMAIN m THEN m[k] ELSE ""

\* Mutant: the found name is not recorded.
RecordName_Forgets(name, st, evs, names) == HandlerResult("", evs, names)

\* The end of populateCoroutineName: a found name is recorded for the goroutine.
RecordName(name, st, evs, names) ==
    IF name.found THEN HandlerResult("", evs, MapSet(names, st.GoroutineID, name.name))
    ELSE HandlerResult("", evs, names)

populateCoroutineName(st, evs, names) ==
    IF ~st.varsOk THEN HandlerResult("failed loading vars", evs, names)
    ELSE RecordName(CrtArgs(st.vars, 1), st, evs, names)

\* bp.handler(): the registry stores which handler a breakpoint carries.
RunHandler(handler, st, evs, names) ==
    IF handler = "onProcessEvent" THEN onProcessEvent(st, evs, names)
    ELSE IF handler = "onReplayCommands" THEN onReplayCommands(st, evs, names)
    ELSE IF handler = "populateCoroutineName" THEN populateCoroutineName(st, evs, names)
    ELSE HandlerResult("", evs, names)

-----------------------------------------------------------------------------
(* The decisions of the stepping loop.                                       *)

\* t.breakpoints[id]: the registered breakpoint, or a nil pointer.
Lookup(bps, id) ==
    IF id \in DOMAIN bps THEN [isNil |-> FALSE, handler |-> bps[id].handler]
    ELSE [isNil |-> TRUE, handler |-> Nil]

\* The first part of the loop body: the breakpoint hit, if any, and its handler.
\* "panic" is the nil pointer dereference of bp.handler on a nil bp.
Hit(kind, h) == [kind |-> kind, err |-> h.err, events |-> h.events, names |-> h.names]

\* Mutant: the loop goes on after a handler error.
HandlerOutcome_IgnoresError(h) == Hit("ok", h)

\* The loop's test of the handler's return value.
HandlerOutcome(h) == Hit(IF h.err # "" THEN "error" ELSE "ok", h)

HitBreakpoint(bp, st, evs, names) ==
    IF bp.isNil THEN Hit("panic", HandlerResult("", evs, names))
    ELSE IF bp.handler # Nil THEN HandlerOutcome(RunHandler(bp.handler, st, evs, names))
    ELSE Hit("ok", HandlerResult("", evs, names))

HitOutcome(bps, st, evs, names) ==
    IF st.Breakpoint = NoBreakpoint THEN Hit("ok", HandlerResult("", evs, names))
    ELSE HitBreakpoint(Lookup(bps, st.Breakpoint), st, evs, names)

\* The breakpoints an earlier revision of newTrace marked forStepping: the
\* workflow function and the coroutine spawn.
forStepping(id) == id \in {BpWorkflowStart, BpCoroutineSpawn}

\* Mutant: the interrupted step is cancelled only at a forStepping breakpoint.
NextInProgressCommands_OnlyForStepping(st) ==
    IF st.NextInProgress /\ forStepping(st.Breakpoint) THEN <<"CancelNext">> ELSE <<>>

\* Mutant: cancel-next is issued at every stop.
NextInProgressCommands_Always(st) == <<"CancelNext">>

\* What the loop does about a step that was interrupted by this stop.
NextInProgressCommands(st) == IF st.NextInProgress THEN <<"CancelNext">> ELSE <<>>

goRootSrc(os) == ToSlash(os, Join(os, GOROOT(os), "src"))

\* The pattern is the path itself, not quoted, between `^` and `.*`.
ImpliedExcludeFiles(os) == {"^" \o ToSlash(os, Join(os, GOROOT(os), "src")) \o ".*"}

\* Mutant: the exclusion test of the earlier revision, without the atomic and
\* runtime prefixes.
goStdOrTemporal_NoRuntime(os, st) ==
    \/ HasPrefix(ToSlash(os, st.File), goRootSrc(os))
    \/ HasPrefix(st.Function, "go.temporal.io/sdk/")
    \/ st.Function = "main.main"

goStdOrTemporal(os, st) ==
    \/ HasPrefix(ToSlash(os, st.File), goRootSrc(os))
    \/ HasPrefix(st.Function, "go.temporal.io/sdk/")
    \/ HasPrefix(st.Function, "go.uber.org/atomic.")
    \/ HasPrefix(st.Function, "runtime.")
    \/ st.Function = "main.main"

\* The command that leaves excluded code.
StepOutCommand(st) == IF HasPrefix(st.Function, "runtime.goexit") THEN "Step" ELSE "StepOut"

\* t.debug.CurrentPackage(): the package of the current function, "" on error.
CurrentPackage(st) ==
    IF st.Function = "???" \/ LastIndex(st.Function, ".") = -1 THEN ""
    ELSE SubSeq(st.Function, 1, LastIndex(st.Function, "."))

\* Mutant: the CodeStep does not carry the goroutine's recorded name.
CodeEvents_Unnamed(os, st, names) ==
    IF st.File # "" /\ ~goStdOrTemporal(os, st)
    THEN <<CodeEvent(CurrentPackage(st), st.File, st.Line, "")>>
    ELSE <<>>

\* Mutant: a stop without a file is recorded too.
CodeEvents_NoFileCheck(os, st, names) ==
    IF ~goStdOrTemporal(os, st)
    THEN <<CodeEvent(CurrentPackage(st), st.File, st.Line, MapGet(names, st.GoroutineID))>>
    ELSE <<>>

\* Mutant: a stop that interrupted a step is not recorded.
CodeEvents_NotWhileStepping(os, st, names) ==
    IF st.File # "" /\ ~goStdOrTemporal(os, st) /\ ~st.NextInProgress
    THEN <<CodeEvent(CurrentPackage(st), st.File, st.Line, MapGet(names, st.GoroutineID))>>
    ELSE <<>>

\* The events the loop body appends for a stop outside excluded code.
CodeEvents(os, st, names) ==
    IF st.File # "" /\ ~goStdOrTemporal(os, st)
    THEN <<CodeEvent(CurrentPackage(st), st.File, st.Line, MapGet(names, st.GoroutineID))>>
    ELSE <<>>

\* The resume command of the loop body and the events appended before it.
Classify(os, st, names) ==
    IF goStdOrTemporal(os, st)
    THEN [command |-> StepOutCommand(st), appended |-> <<>>]
    ELSE [command |-> "Step", appended |-> CodeEvents(os, st, names)]

\* The error trace.run returns once the loop has ended ("" for nil).
ExitError(st) ==
    IF st.Exited /\ st.ExitStatus # 0 THEN "failed with exit status" ELSE ""

\* Mutant: the loop body runs whatever the state.
LoopContinues_Always(st) == TRUE

\* Mutant: the loop condition of the earlier revision, which also ends the
\* loop at runtime.goexit.
LoopContinues_UntilGoexit(st) == ~st.Exited /\ st.Function # "runtime.goexit"

\* The condition of the for loop.
LoopContinues(st) == ~st.Exited

\* The error of a failed resume command.
CommandError(os, st) ==
    IF goStdOrTemporal(os, st) THEN "failed stepping out" ELSE "failed stepping"

\* Mutant: the step-out is not followed by `continue`, so the iteration falls
\* through to the normal step.
AfterHit_FallsThrough(os, hit, c, nip, evs) ==
    [kind |-> hit.kind, err |-> hit.err, names |-> hit.names,
     handled |-> hit.events,
     handlerAppended |-> SubSeq(hit.events, Len(evs) + 1, Len(hit.events)),
     nip |-> nip, command |-> c.command,
     issued |-> nip \o (IF c.command = "StepOut" THEN <<"StepOut", "Step">>
                        ELSE <<c.command>>),
     events |-> hit.events \o c.appended,
     appended |-> SubSeq(hit.events, Len(evs) + 1, Len(hit.events)) \o c.appended]

\* One pass through the loop body up to its resume command: the handler's
\* outcome, the commands issued, the events and names left behind.
AfterHit(os, hit, c, nip, evs) ==
    [kind |-> hit.kind, err |-> hit.err, names |-> hit.names,
     handled |-> hit.events,
     handlerAppended |-> SubSeq(hit.events, Len(evs) + 1, Len(hit.events)),
     nip |-> nip, command |-> c.command,
     issued |-> nip \o <<c.command>>,
     events |-> hit.events \o c.appended,
     appended |-> SubSeq(hit.events, Len(evs) + 1, Len(hit.events)) \o c.appended]

ClassifyAfter(os, st, hit, evs) ==
    AfterHit(os, hit, Classify(os, st, hit.names), NextInProgressCommands(st), evs)

LoopBody(os, bps, st, evs, names) ==
    ClassifyAfter(os, st, HitOutcome(bps, st, evs, names), evs)

\* The handlers the loop body calls at a stop: the one of the registered
\* breakpoint hit, if it has one.
HandlerCalls(bps, st) ==
    IF st.Breakpoint = NoBreakpoint \/ Lookup(bps, st.Breakpoint).isNil THEN <<>>
    ELSE IF Lookup(bps, st.Breakpoint).handler # Nil
         THEN <<Lookup(bps, st.Breakpoint).handler>>
    ELSE <<>>

\* Mutant: the pending step is cancelled before the handler runs.
IterationCalls_CancelFirst(ran, nip, issued) ==
    nip \o ran \o SubSeq(issued, Len(nip) + 1, Len(issued))

\* The order of the calls of one pass through the loop body: the handler, then
\* the commands (CancelNext first).
IterationCalls(ran, nip, issued) == ran \o issued

-----------------------------------------------------------------------------
(* Tracer.Trace: setup, teardown and return.                                 *)

\* Mutant: buildClientOptionsCode does not require a namespace.
BuildReplayMainCodeError_AnyNamespace(c) ==
    IF c.HostPort = "" THEN "invalid client options: missing host:port"
    ELSE IF ~c.Execution THEN "format.Source: syntax error"
    ELSE ""

\* buildReplayMainCode: the error of buildClientOptionsCode, or of format.Source
\* on the generated text (the history-file branch generates
\* `err = replayer.ReplayWorkflowHistoryFromJSONFile(nil, "...") error`, which
\* does not parse).
BuildReplayMainCodeError(c) ==
    IF c.HostPort = "" THEN "invalid client options: missing host:port"
    ELSE IF c.Namespace = "" THEN "invalid client options: missing namespace"
    ELSE IF ~c.Execution THEN "format.Source: syntax error"
    ELSE ""

\* The part of Trace before newTrace: its error for each way the file system
\* and the build can answer.
SetupOutcomes == {"mkdirFails", "absFails", "writeFails", "buildFails", "ok"}

SetupError(c, outcome) ==
    IF outcome = "mkdirFails" THEN "failed creating temp dir"
    ELSE IF outcome = "absFails" THEN "could not turn dir absolute"
    ELSE IF BuildReplayMainCodeError(c) # ""
         THEN "failed building temp main.go: " \o BuildReplayMainCodeError(c)
    ELSE IF outcome = "writeFails" THEN "failed writing temp main.go"
    ELSE IF outcome = "buildFails" THEN "failed building main exe"
    ELSE ""

\* Number of removal attempts of the deferred cleanup loop.
RemoveTries == 20

\* The deferred cleanup of the temp dir when the first `fails` calls of
\* os.RemoveAll fail: the calls made, whether the dir is gone, and the value of
\* the outer err the warning tests (the loop assigns a shadowing err, so the
\* outer one keeps its zero value).
RemoveTempDir(os, retain, fails) ==
    LET attempts == IF os # "windows" THEN 1
                    ELSE IF fails + 1 < RemoveTries THEN fails + 1 ELSE RemoveTries
    IN  IF retain THEN [calls |-> <<>>, removed |-> FALSE, err |-> Nil]
        ELSE [calls |-> [i \in 1..attempts |-> "RemoveAll"],
              removed |-> fails < attempts,
              err |-> Nil]

RemoveLogs(r) == IF r.err # Nil THEN {"Failed deleting temp dir"} ELSE {}

\* How many leading os.RemoveAll calls the file system lets fail.
RemoveFailures == {0, 1, RemoveTries}

\* What a call returned: a nil result or a Result, and the error ("" for nil).
NilResult == [isNil |-> TRUE, Events |-> <<>>]
Result(evs) == [isNil |-> FALSE, Events |-> evs]
Returned(result, err) == [returned |-> TRUE, result |-> result, err |-> err]
NotReturned == [returned |-> FALSE, result |-> NilResult, err |-> ""]

\* Mutant: the session is detached before it is halted.
close_DetachFirst(haltOk, detachOk) ==
    [calls |-> <<"Detach", "Halt">>,
     logs  |-> (IF haltOk THEN {} ELSE {"Failed halting"})
                   \cup (IF detachOk THEN {} ELSE {"Failed detaching"})]

\* Mutant: a failed halt ends the teardown.
close_StopsAtFailedHalt(haltOk, detachOk) ==
    IF haltOk
    THEN [calls |-> <<"Halt", "Detach">>,
          logs  |-> IF detachOk THEN {} ELSE {"Failed detaching"}]
    ELSE [calls |-> <<"Halt">>, logs |-> {"Failed halting"}]

\* trace.close: halt, then detach, each failure only logged.
close(haltOk, detachOk) ==
    [calls |-> <<"Halt", "Detach">>,
     logs  |-> (IF haltOk THEN {} ELSE {"Failed halting"})
                   \cup (IF detachOk THEN {} ELSE {"Failed detaching"})]

\* Mutant: a failed run yields no Result.
TraceResult_NilOnError(evs, err) == IF err # "" THEN NilResult ELSE Result(evs)

\* The Result Trace returns once run has returned.
TraceResult(evs, err) == Result(evs)

-----------------------------------------------------------------------------
(* newTrace: the breakpoint placements and the source locator.               *)

\* strings.ReplaceAll for a non-empty old.
RECURSIVE ReplaceAll(_, _, _)
ReplaceAll(s, old, new) ==
    IF Len(s) < Len(old) THEN s
    ELSE IF SubSeq(s, 1, Len(old)) = old
         THEN new \o ReplaceAll(SubSeq(s, Len(old) + 1, Len(s)), old, new)
    ELSE Char(s, 1) \o ReplaceAll(SubSeq(s, 2, Len(s)), old, new)

\* strings.Count for a one-character sub.
StringsCount(s, c) == Cardinality({i \in 1..Len(s) : Char(s, i) = c})

\* The file patterns of newTrace, `.*/go\.temporal\.io/sdk.*/internal/` followed
\* by the escaped file name, as regexp.MatchString applies them, unanchored:
\* the file name contains the first literal and, after it, the second.
matchInternalPkg(file, leaf) ==
    /\ Index(file, "/go.temporal.io/sdk") # -1
    /\ LastIndex(file, "/internal/" \o leaf) >= Index(file, "/go.temporal.io/sdk") + 19

matchInternalEventHandlers == "internal_event_handlers.go"
matchInternalTaskHandlers == "internal_task_handlers.go"
matchInternalWorkflow == "internal_workflow.go"

\* The breakpoints newTrace places, in order: the identifier the backend gives
\* each, the file pattern and code fragment of a file-line breakpoint ("" for
\* the function breakpoint) and the handler.
Placement(id, fileRegex, codeToMatch, handler) ==
    [id |-> id, fileRegex |-> fileRegex, codeToMatch |-> codeToMatch, handler |-> handler]

Placements ==
    << Placement(BpWorkflowStart, "", "", Nil),
       Placement(BpProcessEvent, matchInternalEventHandlers, "\tif event == nil {",
                 "onProcessEvent"),
       Placement(BpReplayCommands, matchInternalTaskHandlers,
                 "if len(eventCommands) > 0 && !skipReplayCheck {", "onReplayCommands"),
       Placement(BpCoroutineSpawn, matchInternalWorkflow, "\t\tf(spawned)",
                 "populateCoroutineName"),
       Placement(BpEndOfYield, matchInternalWorkflow, "\ts.blocked.Swap(false)", Nil) >>

\* One thing a Trace call did: an operation on a file at a line ("" and 0 when
\* they do not apply).
Step(op, file, line) == [op |-> op, file |-> file, line |-> line]

Ops(names) == [i \in 1..Len(names) |-> Step(names[i], "", 0)]

\* The calls Trace makes before newTrace, up to the first that fails.
SetupSteps(c, outcome) ==
    Ops(IF outcome = "mkdirFails" THEN <<"MkdirTemp">>
        ELSE IF outcome = "absFails" THEN <<"MkdirTemp", "Abs">>
        ELSE IF BuildReplayMainCodeError(c) # ""
             THEN <<"MkdirTemp", "Abs", "buildReplayMainCode">>
        ELSE IF outcome = "writeFails"
             THEN <<"MkdirTemp", "Abs", "buildReplayMainCode", "WriteFile">>
        ELSE <<"MkdirTemp", "Abs", "buildReplayMainCode", "WriteFile", "go build">>)

\* Mutant: the first of several matching files is taken.
RECURSIVE FindFile_PicksFirst(_, _, _, _)
FindFile_PicksFirst(sources, i, file, leaf) ==
    IF i > Len(sources)
    THEN [err |-> IF file = "" THEN "unable to find file matching" ELSE "", file |-> file]
    ELSE IF matchInternalPkg(sources[i], leaf) /\ file = ""
         THEN FindFile_PicksFirst(sources, i + 1, sources[i], leaf)
    ELSE FindFile_PicksFirst(sources, i + 1, file, leaf)

\* The first loop of addFileLineBreakpoint: the only source file the pattern
\* matches, or the error for a second match or for none.
RECURSIVE FindFile(_, _, _, _)
FindFile(sources, i, file, leaf) ==
    IF i > Len(sources)
    THEN [err |-> IF file = "" THEN "unable to find file matching" ELSE "", file |-> file]
    ELSE IF matchInternalPkg(sources[i], leaf)
         THEN IF file # "" THEN [err |-> "both match", file |-> ""]
              ELSE FindFile(sources, i + 1, sources[i], leaf)
    ELSE FindFile(sources, i + 1, file, leaf)

\* t.sourceCache[file]: the cached text, "" when there is none.
Cached(cache, file) == IF file \in DOMAIN cache THEN cache[file] ELSE ""

\* The source text of the file: from the cache, or read and normalised.
ReadSource(files, cache, file) ==
    IF Cached(cache, file) # ""
    THEN [err |-> "", source |-> Cached(cache, file), cache |-> cache, did |-> <<>>]
    ELSE IF ~files[file].ok
    THEN [err |-> "failed reading", source |-> "", cache |-> cache,
          did |-> <<Step("ReadFile", file, 0)>>]
    ELSE [err |-> "", source |-> ReplaceAll(files[file].text, "\r\n", "\n"),
          cache |-> MapSet(cache, file, ReplaceAll(files[file].text, "\r\n", "\n")),
          did |-> <<Step("ReadFile", file, 0)>>]

\* Mutant: lines are counted from zero.
FindLine_ZeroIndexed(source, codeToMatch) ==
    IF Index(source, codeToMatch) = -1
    THEN [err |-> "cannot find matching code", line |-> 0]
    ELSE IF LastIndex(source, codeToMatch) # Index(source, codeToMatch)
    THEN [err |-> "code found twice", line |-> 0]
    ELSE [err |-> "",
          line |-> StringsCount(SubSeq(source, 1, Index(source, codeToMatch)
                                                      + Len(codeToMatch)), "\n")]

\* Mutant: the first of several occurrences is taken.
FindLine_FirstOfSeveral(source, codeToMatch) ==
    IF Index(source, codeToMatch) = -1
    THEN [err |-> "cannot find matching code", line |-> 0]
    ELSE [err |-> "",
          line |-> StringsCount(SubSeq(source, 1, Index(source, codeToMatch)
                                                      + Len(codeToMatch)), "\n") + 1]

\* The line of the only occurrence of the code in the source, or the error.
FindLine(source, codeToMatch) ==
    IF Index(source, codeToMatch) = -1
    THEN [err |-> "cannot find matching code", line |-> 0]
    ELSE IF LastIndex(source, codeToMatch) # Index(source, codeToMatch)
    THEN [err |-> "code found twice", line |-> 0]
    ELSE [err |-> "",
          line |-> StringsCount(SubSeq(source, 1, Index(source, codeToMatch)
                                                      + Len(codeToMatch)), "\n") + 1]

\* What one placement leaves behind: its error, the registry, the source cache
\* and what it did.
Placed(err, bps, cache, did) == [err |-> err, bps |-> bps, cache |-> cache, did |-> did]

\* Mutant: the breakpoint is registered without its handler.
CreateBreakpoint_NoHandler(p, file, line, accepted, bps, cache, did) ==
    IF ~accepted
    THEN Placed("CreateBreakpoint failed", bps, cache,
                did \o <<Step("CreateBreakpoint", file, line)>>)
    ELSE Placed("", MapSet(bps, p.id, [handler |-> Nil, File |-> file, Line |-> line]),
                cache, did \o <<Step("CreateBreakpoint", file, line)>>)

\* The end of both add...Breakpoint functions: CreateBreakpoint, then the
\* registration under the identifier the backend returned.
CreateBreakpoint(p, file, line, accepted, bps, cache, did) ==
    IF ~accepted
    THEN Placed("CreateBreakpoint failed", bps, cache,
                did \o <<Step("CreateBreakpoint", file, line)>>)
    ELSE Placed("", MapSet(bps, p.id, [handler |-> p.handler, File |-> file, Line |-> line]),
                cache, did \o <<Step("CreateBreakpoint", file, line)>>)

addFuncBreakpoint(p, fn, accepted, bps, cache) ==
    CreateBreakpoint(p, fn, 0, accepted, bps, cache, <<>>)

LocateLine(p, f, src, accepted, bps) ==
    IF src.err # "" THEN Placed(src.err, bps, src.cache, src.did)
    ELSE IF FindLine(src.source, p.codeToMatch).err # ""
    THEN Placed(FindLine(src.source, p.codeToMatch).err, bps, src.cache, src.did)
    ELSE CreateBreakpoint(p, f.file, FindLine(src.source, p.codeToMatch).line, accepted,
                          bps, src.cache, src.did)

LocateFile(p, tgt, f, accepted, bps, cache) ==
    IF f.err # "" THEN Placed(f.err, bps, cache, <<>>)
    ELSE LocateLine(p, f, ReadSource(tgt.Files, cache, f.file), accepted, bps)

addFileLineBreakpoint(p, tgt, accepted, bps, cache) ==
    LocateFile(p, tgt, FindFile(tgt.Sources, 1, "", p.fileRegex), accepted, bps, cache)

\* One placement of newTrace.
Place(p, tgt, fn, accepted, bps, cache) ==
    IF p.fileRegex = ""
    THEN addFuncBreakpoint(p, fn, accepted, bps, cache)
    ELSE addFileLineBreakpoint(p, tgt, accepted, bps, cache)

\* The i-th placement, on top of what the earlier ones left behind.
PlaceAfter(acc, r) == Placed(r.err, r.bps, r.cache, acc.did \o r.did)

PlaceNext(i, tgt, fn, rejectAt, acc) ==
    PlaceAfter(acc, Place(Placements[i], tgt, fn, rejectAt # i, acc.bps, acc.cache))

\* Mutant: the placements after a failed one are attempted as well.
RECURSIVE PlaceFrom_KeepsGoing(_, _, _, _, _)
PlaceFrom_KeepsGoing(i, tgt, fn, rejectAt, acc) ==
    IF i > Len(Placements) THEN acc
    ELSE PlaceFrom_KeepsGoing(i + 1, tgt, fn, rejectAt, PlaceNext(i, tgt, fn, rejectAt, acc))

\* The chain of placements from the i-th on, each attempted only if no earlier
\* one failed; rejectAt is the placement the backend rejects (0 for none).
RECURSIVE PlaceFrom(_, _, _, _, _)
PlaceFrom(i, tgt, fn, rejectAt, acc) ==
    IF i > Len(Placements) \/ acc.err # "" THEN acc
    ELSE PlaceFrom(i + 1, tgt, fn, rejectAt, PlaceNext(i, tgt, fn, rejectAt, acc))

\* Mutant: the new trace takes over the fields of the earlier one.
traceStruct_Reused(old) == old

\* The fields of the trace struct newTrace allocates: nothing of an earlier
\* trace (old) is carried over.
traceStruct(old) ==
    [events |-> <<>>, breakpoints |-> <<>>, sourceCache |-> <<>>, coroutineNames |-> <<>>,
     state |-> NoState]

\* newTrace after debugger.New: the five placements on the new trace struct.
newTrace(t, tgt, fn, rejectAt) ==
    PlaceFrom(1, tgt, fn, rejectAt, Placed("", t.breakpoints, t.sourceCache, <<>>))

-----------------------------------------------------------------------------
(* The target binary: the source files of its debug information and their   *)
(* text on disk.                                                             *)

EventHandlersFile == "/m/go.temporal.io/sdk@v1/internal/internal_event_handlers.go"
TaskHandlersFile == "/m/go.temporal.io/sdk@v1/internal/internal_task_handlers.go"
WorkflowFile == "/m/go.temporal.io/sdk@v1/internal/internal_workflow.go"
OtherEventHandlersFile == "/v/go.temporal.io/sdk/x/internal/internal_event_handlers.go"
ApiFile == "/m/go.temporal.io/api/internal/internal_workflow.go"
UserFile == "/w/wf.go"

File(text) == [ok |-> TRUE, text |-> text]
Unreadable == [ok |-> FALSE, text |-> ""]

EventCode == "\tif event == nil {"
TaskText == "if len(eventCommands) > 0 && !skipReplayCheck {\n}\n"
WorkflowText == "go func() {\r\n\t\tf(spawned)\r\n}\r\n\ts.blocked.Swap(false)\r\n"

Sources == <<UserFile, ApiFile, EventHandlersFile, TaskHandlersFile, WorkflowFile>>

Target(tag, sources, eventHandlers, workflow, stops) ==
    [tag |-> tag, Sources |-> sources, stops |-> stops,
     Files |-> (EventHandlersFile :> eventHandlers) @@ (TaskHandlersFile :> File(TaskText))
                   @@ (WorkflowFile :> workflow) @@ (OtherEventHandlersFile :> File(EventCode))
                   @@ (ApiFile :> File(EventCode)) @@ (UserFile :> File("package w\n"))]

\* The target of the full model: every fragment occurs once in its file.
FullTarget ==
    Target("full", Sources, File("x\n" \o EventCode \o "\n"), File(WorkflowText), "full")

\* Targets for the locator: texts of the event-handlers file with the fragment
\* once at different lines and with different line endings, never, twice; an
\* unreadable and an empty file; no and two files for the pattern; a workflow
\* file without the second fragment.
Targets ==
    { Target("line1", Sources, File(EventCode), File(WorkflowText), "small"),
      Target("line2", Sources, File("a\n" \o EventCode \o "\nb\n"), File(WorkflowText), "small"),
      Target("crlf3", Sources, File("a\r\nb\r\n" \o EventCode \o "\r\n"),
             File(WorkflowText), "small"),
      Target("cr2", Sources, File("a\rb\n" \o EventCode), File(WorkflowText), "small"),
      Target("blank4", Sources, File("\n\n\n" \o EventCode \o "\n\n"),
             File(WorkflowText), "small"),
      Target("never", Sources, File("a\nif event == nil {\n"), File(WorkflowText), "small"),
      Target("twice", Sources, File(EventCode \o "\n" \o EventCode), File(WorkflowText),
             "small"),
      Target("thrice", Sources, File(EventCode \o EventCode \o "\n" \o EventCode),
             File(WorkflowText), "small"),
      Target("empty", Sources, File(""), File(WorkflowText), "small"),
      Target("unreadable", Sources, Unreadable, File(WorkflowText), "small"),
      Target("nofile", <<UserFile, ApiFile, TaskHandlersFile, WorkflowFile>>,
             File(EventCode), File(WorkflowText), "small"),
      Target("twofiles", Sources \o <<OtherEventHandlersFile>>, File(EventCode),
             File(WorkflowText), "small"),
      Target("nosources", <<>>, File(EventCode), File(WorkflowText), "small"),
      Target("noyield", Sources, File(EventCode), File("\t\tf(spawned)\n"), "small"),
      Target("twospawns", Sources, File(EventCode),
             File("\t\tf(spawned)\n\t\tf(spawned)\n\ts.blocked.Swap(false)"), "small") }

LinuxStops == RunningStops("linux")
WindowsStops == RunningStops("windows")

\* A further hit of the event-dispatch breakpoint with a well-formed frame.
MarkerStops(os) ==
    {Stop(os, BpProcessEvent, FALSE, LocSdk, 1,
          EventArg(<<Var("EventId", "3", <<>>), Var("EventType", "T (3)", <<>>)>>), TRUE)}

\* The stops of a target with few of them: a coroutine that is named and then
\* steps through user code, an event whose type cannot be read, a breakpoint
\* the tracer did not place.
SmallStops(os) ==
    { Stop(os, BpCoroutineSpawn, FALSE, LocSdk, 2,
           CrtArg(<<Var("name", "my-coroutine", <<>>)>>), TRUE),
      Stop(os, NoBreakpoint, TRUE, LocUser, 2, <<>>, TRUE),
      Stop(os, BpProcessEvent, FALSE, LocSdk, 1,
           EventArg(<<Var("EventId", "3", <<>>), Var("EventType", "T", <<>>)>>), TRUE),
      Stop(os, BpBackendOwned, FALSE, LocFatal, 1, <<>>, TRUE) }

\* Function names and files around the borders of the exclusion test: inside,
\* just outside each prefix, and with another character where the name or the
\* GOROOT has a dot.
ProbeFuncs ==
    {"go.temporal.io/sdk/internal.f", "goxtemporal.io/sdk/x.f", "go.uber.org/atomic.Load",
     "go.uber.org/atomicx.Load", "runtime.gopark", "runtimex.f", "main.main", "main.mainx",
     "xmain.main", "w.MyWorkflow"}

ProbeFiles(os) ==
    {ToSlash(os, GOROOT(os)) \o "/src/fmt/p.go",
     ReplaceChar(ToSlash(os, GOROOT(os)), ".", "x") \o "/src/a.go",
     ToSlash(os, GOROOT(os)) \o "/srcx/a.go",
     "/x" \o ToSlash(os, GOROOT(os)) \o "/src/a.go",
     "/w/wf.go"}

ProbeStops(os) ==
    {Stop(os, NoBreakpoint, FALSE, Loc(f, "/w/wf.go", 1), 1, <<>>, TRUE) : f \in ProbeFuncs}
    \cup {Stop(os, NoBreakpoint, FALSE, Loc("w.MyWorkflow", file, 1), 1, <<>>, TRUE) :
             file \in ProbeFiles(os)}

\* The states the debugger may answer a resume command with: any stop for the
\* first MaxStops stops, then at most one more hit of the event-dispatch
\* breakpoint, then the exit.
Responses(os, n) ==
    IF target.stops = "small"
    THEN (IF n < MaxStops THEN SmallStops(os) ELSE {}) \cup {ExitedState(0)}
    ELSE IF target.stops = "probe"
    THEN (IF n < MaxStops THEN SmallStops(os) \cup ProbeStops(os) ELSE {})
             \cup {ExitedState(0)}
    ELSE IF n < MaxStops
    THEN (IF os = "windows" THEN WindowsStops ELSE LinuxStops) \cup ExitedStops
    ELSE IF n = MaxStops THEN MarkerStops(os) \cup ExitedStops
    ELSE ExitedStops

-----------------------------------------------------------------------------
(* The trace command of the CLI.                                             *)

\* The flags of the command, after parsing: --address and --namespace have the
\* defaults of the client package, --func is required.
TraceConfig(workflowID, runID, historyFile, stdout, json, html, excludeFuncs) ==
    [Address |-> "localhost:7233", Namespace |-> "default", WorkflowID |-> workflowID,
     RunID |-> runID, HistoryFile |-> historyFile, Func |-> "w.MyWorkflow",
     OutputStdout |-> stdout, OutputJSONFile |-> json, OutputHTMLDir |-> html,
     RetainTempDir |-> FALSE, ExcludeFuncs |-> excludeFuncs, ExcludeFiles |-> <<>>]

\* The command lines the model starts from.
TraceConfigs ==
    {TraceConfig(w, r, h, o, j, d, <<>>) :
        w \in {"", "wid"}, r \in {"", "rid"}, h \in {"", "h.json"},
        o \in BOOLEAN, j \in {"", "t.json"}, d \in {"", "out"}}
    \cup {TraceConfig("wid", "", "", FALSE, "", "", <<"w.helper", "(">>)}

\* regexp.Compile on the patterns of the command lines: "(" does not compile.
Compiles(str) == str # "("

\* stringsToRegexps
stringsToRegexps(strs) ==
    IF \E i \in 1..Len(strs) : ~Compiles(strs[i])
    THEN [err |-> "invalid regex", regexps |-> {}]
    ELSE [err |-> "", regexps |-> {Regexp(strs[i], FALSE) : i \in 1..Len(strs)}]

CliConfig(err, c) == [err |-> err, config |-> c]

\* The tracer.Config before the command fills it in.
ZeroConfig == Config(FALSE, "", <<>>, "", "", FALSE, {}, {})

\* Mutant: a history file next to a workflow ID is passed on.
ExecutionOrHistory_AllowsBoth(f, funcs, files) ==
    IF f.WorkflowID # ""
    THEN CliConfig("", Config(TRUE, f.HistoryFile, <<f.Func>>, f.Address, f.Namespace,
                              f.RetainTempDir, funcs.regexps, files.regexps))
    ELSE IF f.RunID # "" THEN CliConfig("cannot have run ID without workflow ID", ZeroConfig)
    ELSE IF f.HistoryFile = ""
    THEN CliConfig("must have either workflow ID or history file", ZeroConfig)
    ELSE CliConfig("", Config(FALSE, f.HistoryFile, <<f.Func>>, f.Address, f.Namespace,
                              f.RetainTempDir, funcs.regexps, files.regexps))

\* The first part of trace(): the tracer.Config for the flags, or the error.
ExecutionOrHistory(f, funcs, files) ==
    IF f.WorkflowID # "" /\ f.HistoryFile # ""
    THEN CliConfig("cannot have both workflow ID and history file", ZeroConfig)
    ELSE IF f.WorkflowID # ""
    THEN CliConfig("", Config(TRUE, "", <<f.Func>>, f.Address, f.Namespace,
                              f.RetainTempDir, funcs.regexps, files.regexps))
    ELSE IF f.RunID # "" THEN CliConfig("cannot have run ID without workflow ID", ZeroConfig)
    ELSE IF f.HistoryFile = ""
    THEN CliConfig("must have either workflow ID or history file", ZeroConfig)
    ELSE CliConfig("", Config(FALSE, f.HistoryFile, <<f.Func>>, f.Address, f.Namespace,
                              f.RetainTempDir, funcs.regexps, files.regexps))

RegexpsOrError(c, funcs, files) ==
    IF c.err # "" THEN c
    ELSE IF funcs.err # "" THEN CliConfig(funcs.err, ZeroConfig)
    ELSE IF files.err # "" THEN CliConfig(files.err, ZeroConfig)
    ELSE c

BuildConfig(f) ==
    RegexpsOrError(ExecutionOrHistory(f, stringsToRegexps(f.ExcludeFuncs),
                                      stringsToRegexps(f.ExcludeFiles)),
                   stringsToRegexps(f.ExcludeFuncs), stringsToRegexps(f.ExcludeFiles))

\* filepath.Base of a non-empty path without trailing separator.
Base(os, path) ==
    LET seps == {i \in 1..Len(path) :
                    Char(path, i) = "/" \/ (os = "windows" /\ Char(path, i) = "\\")}
    IN  IF path = "" THEN "."
        ELSE IF seps = {} THEN path
        ELSE SubSeq(path, (CHOOSE i \in seps : \A j \in seps : j <= i) + 1, Len(path))

\* One line of the stdout dump; file and line are "" and -1 where there is none.
DumpLine(kind, id, type, pkg, file, line) ==
    [kind |-> kind, id |-> id, type |-> type, pkg |-> pkg, file |-> file, line |-> line]

\* The lines the dump prints for one event.
EventLines(os, e, lastFile, lastLine) ==
    IF e.kind = "Server" THEN <<DumpLine("Event", e.ID, e.Type, "", "", -1)>>
    ELSE IF e.kind = "Client"
    THEN [i \in 1..Len(e.Commands) |-> DumpLine("Command", 0, e.Commands[i], "", "", -1)]
    ELSE IF lastFile = e.File /\ lastLine = e.Line THEN <<>>
    ELSE <<DumpLine("Code", 0, 0, e.Package, Base(os, e.File), e.Line)>>

\* The stdout dump: a code event at the file and line of the code event just
\* before it is not printed.
RECURSIVE Dump(_, _, _, _, _)
Dump(os, evs, i, lastFile, lastLine) ==
    IF i > Len(evs) THEN <<>>
    ELSE EventLines(os, evs[i], lastFile, lastLine)
             \o Dump(os, evs, i + 1,
                     IF evs[i].kind = "Code" THEN evs[i].File ELSE "",
                     IF evs[i].kind = "Code" THEN evs[i].Line ELSE -1)

\* One output of the command: where it went and what it held.
Output(out, content) == [out |-> out, content |-> content]
Outputs(did, err) == [did |-> did, err |-> err]

\* The HTML output, once the JSON output is through.
HTMLOutput(f, res, htmlOk, sofar) ==
    IF sofar.err # "" \/ f.OutputHTMLDir = "" THEN sofar
    ELSE IF ~htmlOk THEN Outputs(sofar.did, "failed generating HTML")
    ELSE Outputs(sofar.did \o <<Output("html", res.Events)>>, "")

\* The JSON output, once the stdout dump is through.
JSONOutput(f, res, jsonOk, sofar) ==
    IF f.OutputJSONFile = "" THEN sofar
    ELSE IF ~jsonOk THEN Outputs(sofar.did, "failed writing")
    ELSE Outputs(sofar.did \o <<Output("json", res.Events)>>, "")

StdoutOutput(os, f, res) ==
    IF f.OutputStdout \/ (f.OutputJSONFile = "" /\ f.OutputHTMLDir = "")
    THEN Outputs(<<Output("stdout", <<DumpLine("------ TRACE ------", 0, 0, "", "", -1)>>
                                         \o Dump(os, res.Events, 1, "", -1))>>, "")
    ELSE Outputs(<<>>, "")

\* Mutant: a failed trace is reported before anything is written.
TraceError_BeforeOutputs(o, traceErr) ==
    IF traceErr # "" THEN Outputs(<<>>, "trace failed: " \o traceErr) ELSE o

\* The end of trace(): the error of an output, else the error of the trace.
TraceError(o, traceErr) ==
    IF o.err # "" THEN o
    ELSE IF traceErr # "" THEN Outputs(o.did, "trace failed: " \o traceErr)
    ELSE o

\* The part of trace() after Tracer.Trace has returned.
DumpResult(os, f, res, traceErr, jsonOk, htmlOk) ==
    IF res.isNil \/ Len(res.Events) = 0
    THEN TraceError(Outputs(<<Output("stdout",
                                     <<DumpLine("No events recorded", 0, 0, "", "", -1)>>)>>,
                            ""),
                    traceErr)
    ELSE TraceError(HTMLOutput(f, res, htmlOk,
                               JSONOutput(f, res, jsonOk, StdoutOutput(os, f, res))),
                    traceErr)

Cli(active, flags, did, returned, err) ==
    [active |-> active, flags |-> flags, did |-> did, returned |-> returned, err |-> err]
NoCli == Cli(FALSE, TraceConfig("", "", "", FALSE, "", "", <<>>), <<>>, FALSE, "")

-----------------------------------------------------------------------------
(* The text form of event and command kinds (result.go).                     *)

\* The first entries of the generated tables of go.temporal.io/api/enums/v1:
\* number to name and name to number, for event types and command types.
EventType_name ==
    (0 :> "Unspecified") @@ (1 :> "WorkflowExecutionStarted")
        @@ (2 :> "WorkflowExecutionCompleted") @@ (3 :> "WorkflowExecutionFailed")
        @@ (4 :> "WorkflowExecutionTimedOut") @@ (5 :> "WorkflowTaskScheduled")

EventType_value ==
    ("Unspecified" :> 0) @@ ("WorkflowExecutionStarted" :> 1)
        @@ ("WorkflowExecutionCompleted" :> 2) @@ ("WorkflowExecutionFailed" :> 3)
        @@ ("WorkflowExecutionTimedOut" :> 4) @@ ("WorkflowTaskScheduled" :> 5)

CommandType_name ==
    (0 :> "Unspecified") @@ (1 :> "ScheduleActivityTask")
        @@ (2 :> "RequestCancelActivityTask") @@ (3 :> "StartTimer")
        @@ (4 :> "CompleteWorkflowExecution")

CommandType_value ==
    ("Unspecified" :> 0) @@ ("ScheduleActivityTask" :> 1)
        @@ ("RequestCancelActivityTask" :> 2) @@ ("StartTimer" :> 3)
        @@ ("CompleteWorkflowExecution" :> 4)

\* strconv.Itoa of a non-negative number.
RECURSIVE Itoa(_)
Itoa(n) == IF n < 10 THEN Digits[n + 1] ELSE Itoa(n \div 10) \o Digits[(n % 10) + 1]

\* String() of a generated enum: the name of the number, or the number in
\* decimal when the table has no name for it.
EnumName(names, v) == IF v \in DOMAIN names THEN names[v] ELSE Itoa(v)

\* A Go map read of a name table: zero for a missing key.
EnumValue(values, text) == IF text \in DOMAIN values THEN values[text] ELSE 0

EventServerType_String(e) == EnumName(EventType_name, e)
EventClientCommandType_String(e) == EnumName(CommandType_name, e)

\* MarshalText and UnmarshalText of both types: the text or the kind, and the
\* error, which is always nil.
Text(text, err) == [text |-> text, err |-> err]
Kind(e, err) == [e |-> e, err |-> err]

EventServerType_MarshalText(e) == Text(EventServerType_String(e), Nil)
EventClientCommandType_MarshalText(e) == Text(EventClientCommandType_String(e), Nil)

EventServerType_UnmarshalText(text) == Kind(EnumValue(EventType_value, text), Nil)

\* Mutant: the command kind is looked up in the table of event types.
EventClientCommandType_UnmarshalText_EventTable(text) ==
    Kind(EnumValue(EventType_value, text), Nil)

EventClientCommandType_UnmarshalText(text) == Kind(EnumValue(CommandType_value, text), Nil)

MarshalText(type, e) ==
    IF type = "EventServerType" THEN EventServerType_MarshalText(e)
    ELSE EventClientCommandType_MarshalText(e)

UnmarshalText(type, text) ==
    IF type = "EventServerType" THEN EventServerType_UnmarshalText(text)
    ELSE EventClientCommandType_UnmarshalText(text)

\* A kind on its way to text and back: the type, the kind marshalled (if one
\* was), the text, the kind read back and the error of the last call.
Wire(type, marshalled, e, text, back, err) ==
    [type |-> type, marshalled |-> marshalled, e |-> e, text |-> text, back |-> back,
     err |-> err]

NoWire == Wire("", FALSE, 0, "", 0, Nil)

\* Kinds with and without a name in the tables, and texts that are names, of
\* either table, or are not.
Kinds == 0..6 \cup {42, 99}

Texts ==
    {EventType_name[e] : e \in DOMAIN EventType_name}
    \cup {CommandType_name[e] : e \in DOMAIN CommandType_name}
    \cup {"", "Bogus", "unspecified", "WORKFLOW_EXECUTION_STARTED", "1", "StartTimer "}

RunReturned(err, evs, cause) ==
    [returned |-> TRUE, err |-> err, events |-> evs, cause |-> cause]
RunNotReturned == [returned |-> FALSE, err |-> "", events |-> <<>>, cause |-> ""]

\* What the frame of a stop at the coroutine-spawn breakpoint shows: the
\* goroutine and the value of the `name` field of its `crt` argument.
ShownFields(st) ==
    UNION {{st.vars[i].Children[1].Children[j] :
               j \in 1..Len(st.vars[i].Children[1].Children)} :
           i \in {k \in 1..Len(st.vars) : st.vars[k].Name = "crt"}}

ShownNames(st) ==
    IF st.Breakpoint = BpCoroutineSpawn /\ st.varsOk
    THEN {[gid |-> st.GoroutineID, name |-> f.Value] :
            f \in {w \in ShownFields(st) : w.Name = "name"}}
    ELSE {}

\* 1 for a stop at the event-dispatch breakpoint whose handler returned nil.
Dispatched(st, outcome) ==
    IF st.Breakpoint = BpProcessEvent /\ outcome \notin {"handlerError", "panic"}
    THEN 1 ELSE 0

\* The record of one loop iteration: its stop, the commands it issued, the
\* events it appended, how it ended, how many commands had been issued before
\* it, how many events the Result held before it, the names shown at the
\* coroutine-spawn breakpoint so far, the number of event-dispatch stops
\* whose handler succeeded so far, the events the run appended so far, and
\* whether an earlier run on the same Tracer left events and names behind,
\* and the calls the iteration made (handler and commands), in order.
Iteration(st, issued, appended, outcome, before) ==
    [acted |-> TRUE, stop |-> st, issued |-> issued, appended |-> appended,
     outcome |-> outcome, cmdsBefore |-> before, eventsBefore |-> Len(events),
     shown |-> last.shown \cup ShownNames(st),
     dispatched |-> last.dispatched + Dispatched(st, outcome),
     produced |-> last.produced \o appended, earlier |-> last.earlier,
     did |-> IterationCalls(HandlerCalls(breakpoints, st),
                            SelectSeq(issued, LAMBDA c : c = "CancelNext"), issued)]
NoIteration ==
    [acted |-> FALSE, stop |-> NoState, issued |-> <<>>, appended |-> <<>>, outcome |-> "",
     cmdsBefore |-> 0, eventsBefore |-> 0, shown |-> {}, dispatched |-> 0,
     produced |-> <<>>, earlier |-> FALSE, did |-> <<>>]

Init ==
    /\ \E sc \in Scenarios : goos = sc.goos /\ config = sc.config
    /\ pc = "start"
    /\ tracer = [fnPkg |-> "", fn |-> ""]
    /\ state = NoState
    /\ events = <<>>
    /\ breakpoints = <<>>
    /\ coroutineNames = <<>>
    /\ cmds = <<>>
    /\ logs = {}
    /\ runReturn = RunNotReturned
    /\ ret = NotReturned
    /\ session = "none"
    /\ tempDir = "none"
    /\ nstops = 0
    /\ last = NoIteration
    /\ target = FullTarget
    /\ sourceCache = <<>>
    /\ steps = <<>>
    /\ calls = 0
    /\ wire = NoWire
    /\ cli = NoCli

\* tracer.New(config)
New ==
    /\ pc = "start"
    /\ IF NewError(config) # ""
       THEN /\ ret' = Returned(NilResult, NewError(config))
            /\ pc' = "done"
            /\ UNCHANGED tracer
       ELSE /\ tracer' = NewTracer(config)
            /\ pc' = "new"
            /\ UNCHANGED ret
    /\ UNCHANGED <<wire, cli, target, sourceCache, steps, calls, goos, config, state, events, breakpoints, coroutineNames, cmds, logs,
                   runReturn, session, tempDir, nstops, last>>

\* Tracer.Trace up to the call of newTrace: temp dir, main.go, go build.
TraceSetup ==
    /\ pc = "new"
    /\ \E outcome \in SetupOutcomes, fails \in RemoveFailures :
         \E err \in {SetupError(config, outcome)},
            rm \in {RemoveTempDir(goos, config.RetainTempDir, fails)} :
             IF err = ""
             THEN /\ pc' = "setup"
                  /\ tempDir' = "created"
                  /\ steps' = steps \o SetupSteps(config, outcome)
                  /\ UNCHANGED <<ret, cmds, logs>>
             ELSE IF outcome \in {"mkdirFails", "absFails"}
             THEN /\ pc' = "done"
                  /\ tempDir' = IF outcome = "mkdirFails" THEN "none" ELSE "created"
                  /\ ret' = Returned(NilResult, err)
                  /\ steps' = steps \o SetupSteps(config, outcome)
                  /\ UNCHANGED <<cmds, logs>>
             ELSE /\ pc' = "done"
                  /\ cmds' = cmds \o rm.calls
                  /\ steps' = steps \o SetupSteps(config, outcome) \o Ops(rm.calls)
                  /\ logs' = logs \cup RemoveLogs(rm)
                  /\ tempDir' = IF rm.removed THEN "removed" ELSE "created"
                  /\ ret' = Returned(NilResult, err)
    /\ calls' = calls + 1
    /\ UNCHANGED <<wire, cli, target, sourceCache, goos, config, tracer, state, events, breakpoints, coroutineNames,
                   runReturn, session, nstops, last>>

\* Tracer.newTrace, and the return of Trace when it fails: the new trace
\* struct, debugger.New, then the five placements; rejectAt is the placement
\* the backend rejects (0 for none).
NewTrace ==
    /\ pc = "setup"
    /\ \E rejectAt \in 0..Len(Placements),
          t \in {traceStruct([events |-> events, breakpoints |-> breakpoints,
                              sourceCache |-> sourceCache,
                              coroutineNames |-> coroutineNames, state |-> state])} :
         \E nt \in {newTrace(t, target, tracer.fnPkg \o "." \o tracer.fn, rejectAt)},
            dbgOk \in BOOLEAN, haltOk \in BOOLEAN, detachOk \in BOOLEAN,
            fails \in RemoveFailures :
         \E rm \in {RemoveTempDir(goos, config.RetainTempDir, fails)},
            cl \in {close(haltOk, detachOk)} :
         /\ events' = t.events
         /\ coroutineNames' = t.coroutineNames
         /\ state' = t.state
         /\ IF ~dbgOk
            THEN /\ pc' = "done"
                 /\ ret' = Returned(NilResult, "failed creating debugger")
                 /\ breakpoints' = t.breakpoints
                 /\ sourceCache' = t.sourceCache
                 /\ cmds' = cmds \o rm.calls
                 /\ steps' = steps \o Ops(<<"debugger.New">>) \o Ops(rm.calls)
                 /\ logs' = logs \cup RemoveLogs(rm)
                 /\ tempDir' = IF rm.removed THEN "removed" ELSE tempDir
                 /\ UNCHANGED session
            ELSE IF nt.err # ""
            THEN /\ pc' = "done"
                 /\ ret' = Returned(NilResult, nt.err)
                 /\ breakpoints' = nt.bps
                 /\ sourceCache' = nt.cache
                 /\ session' = "closed"
                 /\ cmds' = cmds \o cl.calls \o rm.calls
                 /\ steps' = steps \o Ops(<<"debugger.New">>) \o nt.did
                                  \o Ops(cl.calls) \o Ops(rm.calls)
                 /\ logs' = logs \cup cl.logs \cup RemoveLogs(rm)
                 /\ tempDir' = IF rm.removed THEN "removed" ELSE tempDir
            ELSE /\ pc' = "run"
                 /\ breakpoints' = nt.bps
                 /\ sourceCache' = nt.cache
                 /\ session' = "open"
                 /\ steps' = steps \o Ops(<<"debugger.New">>) \o nt.did
                 /\ UNCHANGED <<ret, cmds, logs, tempDir>>
    /\ UNCHANGED <<wire, cli, target, calls, goos, config, tracer, runReturn, nstops, last>>

-----------------------------------------------------------------------------
(* trace.run                                                                 *)

Count(st) == IF st.Exited THEN 0 ELSE 1

\* The first continue of run.
RunStart ==
    /\ pc = "run"
    /\ cmds' = Append(cmds, "Continue")
    /\ steps' = steps \o Ops(<<"Continue">>)
    /\ \/ /\ runReturn' = RunReturned("failed starting execution", events, "start")
          /\ pc' = "returning"
          /\ UNCHANGED <<state, nstops>>
       \/ \E resp \in Responses(goos, nstops) :
            /\ state' = resp
            /\ nstops' = nstops + Count(resp)
            /\ pc' = "loop"
            /\ UNCHANGED runReturn
    /\ UNCHANGED <<wire, cli, target, sourceCache, calls, goos, config, tracer, events, breakpoints, coroutineNames, logs, ret,
                   session, tempDir, last>>

\* The loop has ended: the exit status decides the error.
RunExit ==
    /\ pc = "loop"
    /\ ~LoopContinues(state)
    /\ runReturn' = RunReturned(ExitError(state), events, "exit")
    /\ pc' = "returning"
    /\ UNCHANGED <<wire, cli, target, sourceCache, steps, calls, goos, config, tracer, state, events, breakpoints, coroutineNames, cmds,
                   logs, ret, session, tempDir, nstops, last>>

\* The hit breakpoint is not in the registry: bp is nil and bp.handler panics.
LoopPanic ==
    /\ pc = "loop"
    /\ LoopContinues(state)
    /\ \E b \in {LoopBody(goos, breakpoints, state, events, coroutineNames)} :
         /\ b.kind = "panic"
         /\ last' = Iteration(state, <<>>, <<>>, "panic", Len(cmds))
    /\ pc' = "panicking"
    /\ UNCHANGED <<wire, cli, target, sourceCache, steps, calls, goos, config, tracer, state, events, breakpoints, coroutineNames, cmds,
                   logs, runReturn, ret, session, tempDir, nstops>>

\* The handler of the hit breakpoint returns an error.
LoopHandlerError ==
    /\ pc = "loop"
    /\ LoopContinues(state)
    /\ \E b \in {LoopBody(goos, breakpoints, state, events, coroutineNames)} :
         /\ b.kind = "error"
         /\ events' = b.handled
         /\ coroutineNames' = b.names
         /\ runReturn' = RunReturned(b.err, b.handled, "handler")
         /\ last' = Iteration(state, <<>>, b.handlerAppended, "handlerError", Len(cmds))
    /\ pc' = "returning"
    /\ UNCHANGED <<wire, cli, target, sourceCache, steps, calls, goos, config, tracer, state, breakpoints, cmds, logs, ret, session,
                   tempDir, nstops>>

\* CancelNext fails.
LoopCancelFails ==
    /\ pc = "loop"
    /\ LoopContinues(state)
    /\ \E b \in {LoopBody(goos, breakpoints, state, events, coroutineNames)} :
         /\ b.kind = "ok"
         /\ b.nip # <<>>
         /\ events' = b.handled
         /\ coroutineNames' = b.names
         /\ cmds' = cmds \o b.nip
         /\ steps' = steps \o Ops(b.nip)
         /\ runReturn' = RunReturned("failed cancelling next", b.handled, "cancel")
         /\ last' = Iteration(state, b.nip, b.handlerAppended, "cancelFailed", Len(cmds))
    /\ pc' = "returning"
    /\ UNCHANGED <<wire, cli, target, sourceCache, calls, goos, config, tracer, state, breakpoints, logs, ret, session, tempDir,
                   nstops>>

\* The resume command of the iteration fails.
LoopCommandFails ==
    /\ pc = "loop"
    /\ LoopContinues(state)
    /\ \E b \in {LoopBody(goos, breakpoints, state, events, coroutineNames)} :
         /\ b.kind = "ok"
         /\ events' = b.events
         /\ coroutineNames' = b.names
         /\ cmds' = cmds \o b.issued
         /\ steps' = steps \o Ops(b.issued)
         /\ runReturn' = RunReturned(CommandError(goos, state), b.events, "command")
         /\ last' = Iteration(state, b.issued, b.appended, "commandFailed", Len(cmds))
    /\ pc' = "returning"
    /\ UNCHANGED <<wire, cli, target, sourceCache, calls, goos, config, tracer, state, breakpoints, logs, ret, session, tempDir,
                   nstops>>

\* A whole iteration: handler, cancel-next, classification, resume command and
\* the debugger's next state.
LoopResume ==
    /\ pc = "loop"
    /\ LoopContinues(state)
    /\ \E b \in {LoopBody(goos, breakpoints, state, events, coroutineNames)} :
         /\ b.kind = "ok"
         /\ events' = b.events
         /\ coroutineNames' = b.names
         /\ cmds' = cmds \o b.issued
         /\ steps' = steps \o Ops(b.issued)
         /\ last' = Iteration(state, b.issued, b.appended, "resumed", Len(cmds))
    /\ \E resp \in Responses(goos, nstops) :
         /\ state' = resp
         /\ nstops' = nstops + Count(resp)
    /\ UNCHANGED <<wire, cli, target, sourceCache, calls, pc, goos, config, tracer, breakpoints, logs, runReturn, ret, session,
                   tempDir>>

\* Trace returns after run: deferred close, deferred temp dir removal, result.
TraceReturn ==
    /\ pc = "returning"
    /\ \E haltOk \in BOOLEAN, detachOk \in BOOLEAN, fails \in RemoveFailures :
         \E rm \in {RemoveTempDir(goos, config.RetainTempDir, fails)},
            cl \in {close(haltOk, detachOk)} :
         /\ cmds' = cmds \o cl.calls \o rm.calls
         /\ steps' = steps \o Ops(cl.calls) \o Ops(rm.calls)
         /\ logs' = logs \cup cl.logs \cup RemoveLogs(rm)
         /\ tempDir' = IF rm.removed THEN "removed" ELSE tempDir
    /\ session' = "closed"
    /\ ret' = Returned(TraceResult(events, runReturn.err), runReturn.err)
    /\ pc' = "done"
    /\ UNCHANGED <<wire, cli, target, sourceCache, calls, goos, config, tracer, state, events, breakpoints, coroutineNames,
                   runReturn, nstops, last>>

\* The panic of the loop unwinds Trace: the deferred calls run, nothing returns.
TracePanic ==
    /\ pc = "panicking"
    /\ \E haltOk \in BOOLEAN, detachOk \in BOOLEAN, fails \in RemoveFailures :
         \E rm \in {RemoveTempDir(goos, config.RetainTempDir, fails)},
            cl \in {close(haltOk, detachOk)} :
         /\ cmds' = cmds \o cl.calls \o rm.calls
         /\ steps' = steps \o Ops(cl.calls) \o Ops(rm.calls)
         /\ logs' = logs \cup cl.logs \cup RemoveLogs(rm)
         /\ tempDir' = IF rm.removed THEN "removed" ELSE tempDir
    /\ session' = "closed"
    /\ pc' = "crashed"
    /\ UNCHANGED <<wire, cli, target, sourceCache, calls, goos, config, tracer, state, events, breakpoints, coroutineNames,
                   runReturn, ret, nstops, last>>

Next ==
    \/ New
    \/ TraceSetup
    \/ NewTrace
    \/ RunStart
    \/ RunExit
    \/ LoopPanic
    \/ LoopHandlerError
    \/ LoopCancelFails
    \/ LoopCommandFails
    \/ LoopResume
    \/ TraceReturn
    \/ TracePanic

Spec == Init /\ [][Next]_vars


-----------------------------------------------------------------------------
(* The locator on a range of targets, and a Tracer used for several Trace    *)
(* calls.                                                                    *)

\* Largest number of Trace calls on one Tracer.
MaxCalls == 2

InitTargets ==
    /\ target \in Targets
    /\ goos = "linux"
    /\ config = Config(TRUE, "", <<"w.MyWorkflow">>, "h:1", "ns", FALSE, {}, {})
    /\ pc = "start"
    /\ tracer = [fnPkg |-> "", fn |-> ""]
    /\ state = NoState
    /\ events = <<>>
    /\ breakpoints = <<>>
    /\ coroutineNames = <<>>
    /\ cmds = <<>>
    /\ logs = {}
    /\ runReturn = RunNotReturned
    /\ ret = NotReturned
    /\ session = "none"
    /\ tempDir = "none"
    /\ nstops = 0
    /\ last = NoIteration
    /\ sourceCache = <<>>
    /\ steps = <<>>
    /\ calls = 0
    /\ wire = NoWire
    /\ cli = NoCli

\* The caller calls Trace again on the Tracer that New returned, after the
\* earlier call has returned; the histories of what a call did start anew.
TraceAgain ==
    /\ pc = "done"
    /\ calls \in 1..(MaxCalls - 1)
    /\ pc' = "new"
    /\ ret' = NotReturned
    /\ runReturn' = RunNotReturned
    /\ cmds' = <<>>
    /\ steps' = <<>>
    /\ nstops' = 0
    /\ last' = [NoIteration EXCEPT
                  !.earlier = last.earlier \/ (events # <<>> /\ DOMAIN coroutineNames # {})]
    /\ session' = "none"
    /\ tempDir' = "none"
    /\ UNCHANGED <<wire, cli, target, goos, config, tracer, state, events, breakpoints, coroutineNames,
                   sourceCache, logs, calls>>

NextTargets == Next \/ TraceAgain

SpecTargets == InitTargets /\ [][NextTargets]_vars

\* One Trace call on a target with few stops, every fragment once in its file.
InitFair ==
    /\ target \in {t \in Targets : t.tag = "line2"}
    /\ goos = "linux"
    /\ config = Config(TRUE, "", <<"w.MyWorkflow">>, "h:1", "ns", FALSE, {}, {})
    /\ pc = "start"
    /\ tracer = [fnPkg |-> "", fn |-> ""]
    /\ state = NoState
    /\ events = <<>>
    /\ breakpoints = <<>>
    /\ coroutineNames = <<>>
    /\ cmds = <<>>
    /\ logs = {}
    /\ runReturn = RunNotReturned
    /\ ret = NotReturned
    /\ session = "none"
    /\ tempDir = "none"
    /\ nstops = 0
    /\ last = NoIteration
    /\ sourceCache = <<>>
    /\ steps = <<>>
    /\ calls = 0
    /\ wire = NoWire
    /\ cli = NoCli

\* One Trace call on a target that stops around the borders of the exclusion
\* test, by a tracer built with each GOROOT.
InitExclusion ==
    /\ target = Target("probe", Sources, File(EventCode), File(WorkflowText), "probe")
    /\ goos \in {"linux", "windows", "darwin"}
    /\ config = Config(TRUE, "", <<"w.MyWorkflow">>, "h:1", "ns", FALSE, {}, {})
    /\ pc = "start"
    /\ tracer = [fnPkg |-> "", fn |-> ""]
    /\ state = NoState
    /\ events = <<>>
    /\ breakpoints = <<>>
    /\ coroutineNames = <<>>
    /\ cmds = <<>>
    /\ logs = {}
    /\ runReturn = RunNotReturned
    /\ ret = NotReturned
    /\ session = "none"
    /\ tempDir = "none"
    /\ nstops = 0
    /\ last = NoIteration
    /\ sourceCache = <<>>
    /\ steps = <<>>
    /\ calls = 0
    /\ wire = NoWire
    /\ cli = NoCli

SpecExclusion == InitExclusion /\ [][Next]_vars

\* The entry-point descriptors New is tried on: well-formed ones, ones with
\* nothing before or after the last dot, ones without a dot.
Descriptors == {"w.MyWorkflow", "g.io/x/w.F", "a.b.c", "pkg.", ".Fn", ".", "a..", "NoDot", ""}

\* New on its own, for every combination of identity source and descriptor.
InitNew ==
    /\ \E e \in BOOLEAN, h \in {"", "hist.json"},
          fs \in {<<d>> : d \in Descriptors} \cup {<<>>, <<"w.A", "w.B">>} :
          config = Config(e, h, fs, "h:1", "ns", FALSE, {}, {})
    /\ goos \in {"linux", "windows"}
    /\ target = FullTarget
    /\ pc = "start"
    /\ tracer = [fnPkg |-> "", fn |-> ""]
    /\ state = NoState
    /\ events = <<>>
    /\ breakpoints = <<>>
    /\ coroutineNames = <<>>
    /\ cmds = <<>>
    /\ logs = {}
    /\ runReturn = RunNotReturned
    /\ ret = NotReturned
    /\ session = "none"
    /\ tempDir = "none"
    /\ nstops = 0
    /\ last = NoIteration
    /\ sourceCache = <<>>
    /\ steps = <<>>
    /\ calls = 0
    /\ wire = NoWire
    /\ cli = NoCli

SpecNew == InitNew /\ [][New]_vars

\* The text form on its own: a kind is marshalled and the text read back, or
\* a text is read.
InitText ==
    /\ \/ /\ pc = "marshal"
          /\ \E type \in {"EventServerType", "EventClientCommandType"}, e \in Kinds :
                wire = Wire(type, FALSE, e, "", 0, Nil)
       \/ /\ pc = "unmarshal"
          /\ \E type \in {"EventServerType", "EventClientCommandType"}, text \in Texts :
                wire = Wire(type, FALSE, 0, text, 0, Nil)
    /\ goos = "linux"
    /\ config = ZeroConfig
    /\ target = FullTarget
    /\ tracer = [fnPkg |-> "", fn |-> ""]
    /\ state = NoState
    /\ events = <<>>
    /\ breakpoints = <<>>
    /\ coroutineNames = <<>>
    /\ cmds = <<>>
    /\ logs = {}
    /\ runReturn = RunNotReturned
    /\ ret = NotReturned
    /\ session = "none"
    /\ tempDir = "none"
    /\ nstops = 0
    /\ last = NoIteration
    /\ sourceCache = <<>>
    /\ steps = <<>>
    /\ calls = 0
    /\ cli = NoCli

\* e.MarshalText()
Marshal ==
    /\ pc = "marshal"
    /\ \E m \in {MarshalText(wire.type, wire.e)} :
         wire' = Wire(wire.type, TRUE, wire.e, m.text, 0, m.err)
    /\ pc' = "unmarshal"
    /\ UNCHANGED <<cli, target, sourceCache, steps, calls, goos, config, tracer, state, events,
                   breakpoints, coroutineNames, cmds, logs, runReturn, ret, session, tempDir,
                   nstops, last>>

\* e.UnmarshalText(text) on a zero kind
Unmarshal ==
    /\ pc = "unmarshal"
    /\ \E u \in {UnmarshalText(wire.type, wire.text)} :
         wire' = Wire(wire.type, wire.marshalled, wire.e, wire.text, u.e, u.err)
    /\ pc' = "decoded"
    /\ UNCHANGED <<cli, target, sourceCache, steps, calls, goos, config, tracer, state, events,
                   breakpoints, coroutineNames, cmds, logs, runReturn, ret, session, tempDir,
                   nstops, last>>

NextText == Marshal \/ Unmarshal

SpecText == InitText /\ [][NextText]_vars

\* The steps of trace.run.
run ==
    \/ RunStart
    \/ RunExit
    \/ LoopPanic
    \/ LoopHandlerError
    \/ LoopCancelFails
    \/ LoopCommandFails
    \/ LoopResume

\* run is sequential code and the debugger answers every command: whenever
\* run can take a step, it eventually takes one.  The target exits after
\* finitely many resume commands.
SpecFair == InitFair /\ [][Next]_vars /\ WF_vars(run)

-----------------------------------------------------------------------------
(* The trace command around New and Trace.                                   *)

CliTarget == Target("cli", Sources, File(EventCode), File(WorkflowText), "small")

InitCli ==
    /\ \E f \in TraceConfigs : cli = Cli(TRUE, f, <<>>, FALSE, "")
    /\ target = CliTarget
    /\ goos = "linux"
    /\ config = ZeroConfig
    /\ pc = "cli"
    /\ tracer = [fnPkg |-> "", fn |-> ""]
    /\ state = NoState
    /\ events = <<>>
    /\ breakpoints = <<>>
    /\ coroutineNames = <<>>
    /\ cmds = <<>>
    /\ logs = {}
    /\ runReturn = RunNotReturned
    /\ ret = NotReturned
    /\ session = "none"
    /\ tempDir = "none"
    /\ nstops = 0
    /\ last = NoIteration
    /\ sourceCache = <<>>
    /\ steps = <<>>
    /\ calls = 0
    /\ wire = NoWire

\* trace() up to tracer.New: the tracer.Config, or the return of the error.
CliBuildConfig ==
    /\ pc = "cli"
    /\ \E c \in {BuildConfig(cli.flags)} :
         IF c.err # ""
         THEN /\ cli' = Cli(TRUE, cli.flags, <<>>, TRUE, c.err)
              /\ pc' = "exited"
              /\ UNCHANGED config
         ELSE /\ config' = c.config
              /\ pc' = "start"
              /\ UNCHANGED cli
    /\ UNCHANGED <<wire, target, goos, tracer, state, events, breakpoints, coroutineNames, cmds,
                   logs, runReturn, ret, session, tempDir, nstops, last, sourceCache, steps,
                   calls>>

\* trace() after tracer.New or Tracer.Trace has returned: the error of New, or
\* the outputs and the error of a Trace call.
CliReturn ==
    /\ pc = "done"
    /\ cli.active
    /\ IF calls = 0
       THEN cli' = Cli(TRUE, cli.flags, <<>>, TRUE, ret.err)
       ELSE \E jsonOk \in BOOLEAN, htmlOk \in BOOLEAN :
              \E o \in {DumpResult(goos, cli.flags, ret.result, ret.err, jsonOk, htmlOk)} :
                 cli' = Cli(TRUE, cli.flags, o.did, TRUE, o.err)
    /\ pc' = "exited"
    /\ UNCHANGED <<wire, target, goos, config, tracer, state, events, breakpoints, coroutineNames,
                   cmds, logs, runReturn, ret, session, tempDir, nstops, last, sourceCache,
                   steps, calls>>

NextCli == CliBuildConfig \/ Next \/ CliReturn

SpecCli == InitCli /\ [][NextCli]_vars

-----------------------------------------------------------------------------
(* Properties of the stepping loop.                                          *)

IsResume(c) == c \in {"Continue", "Step", "StepOut"}
IsCode(e) == e.kind = "Code"

\* The resume commands and the CodeSteps of the last iteration.
Resumes(it) == SelectSeq(it.issued, IsResume)
CodeSteps(it) == SelectSeq(it.appended, IsCode)

\* The last iteration got as far as its resume command.
Classified(it) == it.acted /\ it.outcome \in {"resumed", "commandFailed"}

\* The last iteration got past its handler.
Handled(it) == it.acted /\ it.outcome \in {"resumed", "commandFailed", "cancelFailed"}

\* The stop lies in code the tracer documents as excluded: Go standard library
\* and runtime, Temporal SDK, uber atomic, main.main.
ExcludedStop(st) ==
    \/ st.Function \in {LocSdk.fn, LocAtomic.fn, LocPark.fn, LocGoexit.fn, LocGoexit0.fn,
                        LocMain.fn, LocFatal.fn}
    \/ ToSlash(goos, st.File) = LocStd.file

C4_CodeStepThenStep ==
    (Classified(last) /\ ~ExcludedStop(last.stop))
        => /\ Len(CodeSteps(last)) = 1
           /\ CodeSteps(last)[1].File = last.stop.File
           /\ CodeSteps(last)[1].Line = last.stop.Line
           /\ CodeSteps(last)[1].Coroutine = MapGet(coroutineNames, last.stop.GoroutineID)
           /\ Resumes(last) = <<"Step">>

\* C4 (amended): a stop outside excluded code whose file is not empty appends
\* exactly one CodeStep (file, line, recorded goroutine name or "") and then
\* issues exactly one step, unless the iteration ended before classification
\* (failed handler or cancel-next), where nothing is appended or resumed; with
\* an empty file the loop appends no CodeStep and only steps.
C4_CodeStepUnlessNoFile ==
    (last.acted /\ ~ExcludedStop(last.stop))
        => /\ (Classified(last) /\ last.stop.File # "")
               => /\ Len(CodeSteps(last)) = 1
                  /\ CodeSteps(last)[1].File = last.stop.File
                  /\ CodeSteps(last)[1].Line = last.stop.Line
                  /\ CodeSteps(last)[1].Coroutine =
                         MapGet(coroutineNames, last.stop.GoroutineID)
                  /\ last.appended[Len(last.appended)] = CodeSteps(last)[1]
           /\ (~Classified(last) \/ last.stop.File = "") => CodeSteps(last) = <<>>
           /\ Classified(last) => Resumes(last) = <<"Step">>
           /\ ~Classified(last) => Resumes(last) = <<>>

\* C4 witness: a CodeStep of a goroutine named by an earlier stop.
C4_Witness ==
    /\ last.acted
    /\ last.stop.Function = LocUser.fn
    /\ last.stop.GoroutineID = 2
    /\ Len(CodeSteps(last)) = 1
    /\ CodeSteps(last)[1].Coroutine = "my-coroutine"
    /\ Resumes(last) = <<"Step">>

\* The stop matches a pattern of Config.ExcludeFuncs or Config.ExcludeFiles.
MatchesConfigured(c, os, st) ==
    \/ \E re \in c.ExcludeFuncs : MatchString(re, st.Function)
    \/ \E re \in c.ExcludeFiles : MatchString(re, ToSlash(os, st.File))

\* C5: a stop whose function matches a Config.ExcludeFuncs pattern, or whose
\* slash-normalised file matches a Config.ExcludeFiles pattern, is stepped out
\* of and adds no CodeStep.
C5_ConfiguredExclusions ==
    (Classified(last) /\ MatchesConfigured(config, goos, last.stop))
        => (Resumes(last) = <<"StepOut">> /\ CodeSteps(last) = <<>>)

\* C6: when run returns an error after the loop has started (handler error,
\* failed cancel-next or resume command, non-zero exit status), Trace returns
\* that error with a non-nil Result holding exactly the events appended up to
\* the error.
C6_PartialResultWithError ==
    (ret.returned /\ runReturn.returned /\ runReturn.err # ""
         /\ runReturn.cause \in {"handler", "cancel", "command", "exit"})
        => /\ ret.err = runReturn.err
           /\ ~ret.result.isNil
           /\ ret.result.Events = runReturn.events
           /\ runReturn.events = events

\* C6 witness: the target exited with status 2 after a CodeStep was recorded.
C6_Witness ==
    /\ ret.returned
    /\ runReturn.cause = "exit"
    /\ state.ExitStatus = 2
    /\ ret.err = "failed with exit status"
    /\ Len(ret.result.Events) >= 1
    /\ ret.result.Events[1].kind = "Code"

\* C7: run returns nil exactly when the loop ended at an Exited stop of status
\* 0; the loop never ends while the target has not exited, and an Exited stop
\* with a non-zero status gives the exit-status error.
C7_NilIffCleanExit ==
    runReturn.returned
        => /\ runReturn.err = ""
               <=> (runReturn.cause = "exit" /\ state.Exited /\ state.ExitStatus = 0)
           /\ runReturn.cause = "exit" => state.Exited
           /\ (state.Exited /\ state.ExitStatus # 0)
               => runReturn.err = "failed with exit status"

\* C7 witness: run returned nil after the target exited with status 0 from a
\* stop in runtime.goexit.
C7_Witness ==
    /\ runReturn.returned
    /\ runReturn.err = ""
    /\ state.Exited
    /\ state.ExitStatus = 0
    /\ last.acted
    /\ last.stop.Function = "runtime.goexit"

\* The handler registered for the breakpoint hit at the stop fails.
HandlerError(st) ==
    IF st.Breakpoint # NoBreakpoint /\ st.Breakpoint \in DOMAIN breakpoints
    THEN RunHandler(breakpoints[st.Breakpoint].handler, st, <<>>, <<>>).err
    ELSE ""

IsTeardown(c) == c \in {"Halt", "Detach", "RemoveAll"}

\* C8: when the handler of the hit breakpoint returns an error, run returns
\* that error at once: the iteration issues no cancel-next, continue, step or
\* step-out, every later command is teardown, and no event is appended.
C8_HandlerErrorAborts ==
    (last.acted /\ HandlerError(last.stop) # "")
        => /\ last.outcome = "handlerError"
           /\ last.issued = <<>>
           /\ last.appended = <<>>
           /\ runReturn.returned
           /\ runReturn.err = HandlerError(last.stop)
           /\ runReturn.events = events
           /\ \A i \in (last.cmdsBefore + 1)..Len(cmds) : IsTeardown(cmds[i])
           /\ ret.returned => ret.err = HandlerError(last.stop)

\* C8 witness: the command-batch handler failed on a malformed command type and
\* Trace returned its error.
C8_Witness ==
    /\ last.acted
    /\ last.stop.Breakpoint = BpReplayCommands
    /\ last.outcome = "handlerError"
    /\ ret.returned
    /\ ret.err = "invalid command type"

HasVar(variables, name) == \E i \in 1..Len(variables) : variables[i].Name = name

\* The frame lacks the shape a handler expects: no `event` argument, or one
\* without EventId or EventType; no `crt` argument, or one without `name`.
MissingShape(st, arg, fields) ==
    /\ st.varsOk
    /\ \/ ~HasVar(st.vars, arg)
       \/ \E i \in 1..Len(st.vars) :
            /\ st.vars[i].Name = arg
            /\ \E f \in fields : ~HasVar(st.vars[i].Children[1].Children, f)

\* C9: a handler that cannot find the expected field shape (event-dispatch: no
\* `event` argument, EventId or EventType; unit-naming: no `crt` argument or
\* `name` field) returns an error that aborts the run, appends no Event and
\* records no name.
C9_MissingShapeIsError ==
    (last.acted
        /\ \/ /\ last.stop.Breakpoint = BpProcessEvent
              /\ MissingShape(last.stop, "event", {"EventId", "EventType"})
           \/ /\ last.stop.Breakpoint = BpCoroutineSpawn
              /\ MissingShape(last.stop, "crt", {"name"}))
        => /\ last.outcome = "handlerError"
           /\ runReturn.returned
           /\ runReturn.err # ""
           /\ last.appended = <<>>
           /\ MapGet(coroutineNames, last.stop.GoroutineID) = ""

IsStepping(c) == c \in {"Continue", "Step", "StepOut", "CancelNext"}

\* The position in the command log of the command whose failure ended run.
FailedAt == IF runReturn.cause = "start" THEN 1 ELSE last.cmdsBefore + Len(last.issued)

\* C10: when continue, step, step-out or cancel-next fails, run returns the
\* error and no further stepping command is issued; Trace still halts and
\* detaches the session before it returns that error.
C10_CommandFailureTearsDown ==
    (runReturn.returned /\ runReturn.cause \in {"start", "cancel", "command"})
        => /\ runReturn.err # ""
           /\ FailedAt \in 1..Len(cmds)
           /\ IsStepping(cmds[FailedAt])
           /\ runReturn.cause = "cancel" => cmds[FailedAt] = "CancelNext"
           /\ \A i \in (FailedAt + 1)..Len(cmds) : ~IsStepping(cmds[i])
           /\ pc = "done" => ret.returned
           /\ ret.returned
               => /\ ret.err = runReturn.err
                  /\ Len(cmds) >= FailedAt + 2
                  /\ cmds[FailedAt + 1] = "Halt"
                  /\ cmds[FailedAt + 2] = "Detach"
                  /\ session = "closed"

\* C10 witness: cancel-next failed, the halt of the teardown failed too, and
\* Trace returned the cancel-next error after detaching.
C10_Witness ==
    /\ runReturn.cause = "cancel"
    /\ ret.returned
    /\ ret.err = "failed cancelling next"
    /\ "Failed halting" \in logs
    /\ session = "closed"

\* C11: Result.Events is append-only and in encounter order: every step keeps
\* the earlier list as a prefix, the events an iteration adds are added at the
\* end, the handler's event before the CodeStep, and an event equal to the one
\* before it is still added.
C11_AppendOnlyInOrder ==
    [][ /\ Len(events') >= Len(events)
        /\ SubSeq(events', 1, Len(events)) = events
        /\ events' # events
               => /\ last' # last
                  /\ last'.eventsBefore = Len(events)
                  /\ events' = events \o last'.appended
        /\ last' # last
               => /\ \A i \in 1..(Len(last'.appended) - 1) : last'.appended[i].kind # "Code"
                  /\ (Classified(last') /\ ~ExcludedStop(last'.stop) /\ last'.stop.File # "")
                         => /\ Len(events') = Len(events) + 1
                            /\ events'[Len(events')].kind = "Code"
      ]_vars

\* C11 witness: two equal CodeSteps stand next to each other in the Result.
C11_Witness ==
    /\ Len(events) = 2
    /\ events[1].kind = "Code"
    /\ events[1] = events[2]

\* C12: once the coroutine-spawn breakpoint has shown name N for a goroutine,
\* every later CodeStep of that goroutine carries N, whatever breakpoint (if
\* any) was hit at the CodeStep's stop.
C12_NamePersists ==
    last.acted
        => \A n \in last.shown :
               n.gid = last.stop.GoroutineID
                   => \A i \in 1..Len(CodeSteps(last)) : CodeSteps(last)[i].Coroutine = n.name

\* C12 witness: a CodeStep at the workflow-start breakpoint carries the name its
\* goroutine was given at an earlier stop.
C12_Witness ==
    /\ last.acted
    /\ last.stop.Breakpoint = BpWorkflowStart
    /\ [gid |-> last.stop.GoroutineID, name |-> "my-coroutine"] \in last.shown
    /\ Len(CodeSteps(last)) = 1
    /\ CodeSteps(last)[1].Coroutine = "my-coroutine"

\* C13: a CodeStep with a non-empty coroutine name belongs to a goroutine for
\* which that name was shown at the coroutine-spawn breakpoint at this stop or
\* an earlier one; a CodeStep of a goroutine never named carries the empty name.
C13_NamesComeFromObservations ==
    /\ last.acted
           => \A i \in 1..Len(CodeSteps(last)) :
                  IF \E n \in last.shown : n.gid = last.stop.GoroutineID
                  THEN [gid |-> last.stop.GoroutineID,
                        name |-> CodeSteps(last)[i].Coroutine] \in last.shown
                  ELSE CodeSteps(last)[i].Coroutine = ""
    /\ \A i \in 1..Len(events) :
           (events[i].kind = "Code" /\ events[i].Coroutine # "")
               => \E n \in last.shown : n.name = events[i].Coroutine

\* C13 witness: after a goroutine was named, a CodeStep of another goroutine
\* carries the empty name.
C13_Witness ==
    /\ last.acted
    /\ last.shown # {}
    /\ \A n \in last.shown : n.gid # last.stop.GoroutineID
    /\ Len(CodeSteps(last)) = 1
    /\ CodeSteps(last)[1].Coroutine = ""

\* C14: no CodeStep of the Result refers to an excluded location or to an empty
\* file: each has a non-empty file outside GOROOT/src and was appended at a
\* stop that is not standard library, runtime, SDK, atomic or main.main code.
C14_NoExcludedCodeStep ==
    /\ \A i \in 1..Len(events) :
           events[i].kind = "Code"
               => /\ events[i].File # ""
                  /\ ~HasPrefix(ToSlash(goos, events[i].File), "/go/src")
    /\ (last.acted /\ CodeSteps(last) # <<>>)
           => /\ ~ExcludedStop(last.stop)
              /\ last.stop.File # ""
              /\ CodeSteps(last)[1].File = last.stop.File

\* C14 witness: an excluded stop was processed after a CodeStep and left the
\* Result with that single CodeStep.
C14_Witness ==
    /\ Classified(last)
    /\ ExcludedStop(last.stop)
    /\ last.eventsBefore = 1
    /\ Len(events) = 1
    /\ events[1].kind = "Code"

\* The command that resumed the target before the stop of the last iteration.
ResumedBy(it) == IF it.acted /\ it.cmdsBefore >= 1 THEN cmds[it.cmdsBefore] ELSE ""

ShownCommands(st) ==
    IF \E i \in 1..Len(st.vars) : st.vars[i].Name = "eventCommands"
    THEN Len(st.vars[CHOOSE i \in 1..Len(st.vars) :
                         st.vars[i].Name = "eventCommands"].Children)
    ELSE 0

\* C16: the command handler appends a batch only for a non-empty command list:
\* every Client event of the Result has at least one command, a hit with an
\* empty list appends nothing, and a hit with n > 0 commands appends one batch
\* of n commands.
C16_NoEmptyBatch ==
    /\ \A i \in 1..Len(events) :
           events[i].kind = "Client" => Len(events[i].Commands) >= 1
    /\ (Handled(last) /\ last.stop.Breakpoint = BpReplayCommands)
           => IF ShownCommands(last.stop) = 0
              THEN last.appended = <<>>
              ELSE /\ Len(last.appended) = 1
                   /\ last.appended[1].kind = "Client"
                   /\ Len(last.appended[1].Commands) = ShownCommands(last.stop)

\* C16 witness: a hit with an empty command list followed a recorded batch and
\* added nothing.
C16_Witness ==
    /\ Classified(last)
    /\ last.stop.Breakpoint = BpReplayCommands
    /\ ShownCommands(last.stop) = 0
    /\ Len(events) = 1
    /\ events[1].kind = "Client"
    /\ Len(events[1].Commands) = 2

IsServer(e) == e.kind = "Server"

\* C17: each stop at the event-dispatch breakpoint whose handler succeeds
\* appends exactly one Server event, so the Result holds as many Server events
\* as such stops were processed, in hit order among the CodeSteps.
C17_OneEventPerDispatch ==
    /\ Len(SelectSeq(events, IsServer)) = last.dispatched
    /\ (Handled(last) /\ last.stop.Breakpoint = BpProcessEvent)
           => /\ Len(last.appended) = 1
              /\ last.appended[1].kind = "Server"
              /\ events[Len(events)] = last.appended[1]
              /\ Len(events) = last.eventsBefore + 1
    /\ (last.acted /\ last.stop.Breakpoint # BpProcessEvent)
           => SelectSeq(last.appended, IsServer) = <<>>

\* C17 witness: the marker fired twice around one CodeStep, the target exited
\* with status 0 and Trace returned the three events with no error.
C17_Witness ==
    /\ ret.returned
    /\ ret.err = ""
    /\ state.Exited
    /\ state.ExitStatus = 0
    /\ last.dispatched = 2
    /\ Len(ret.result.Events) = 3
    /\ ret.result.Events[1].kind = "Server"
    /\ ret.result.Events[2].kind = "Code"
    /\ ret.result.Events[3].kind = "Server"

\* C18: `continue` is issued exactly once, as the first command of the session,
\* before any step, step-out or cancel-next; when it fails run returns an error
\* and the Result is empty; when it answers with an Exited state the loop body
\* never runs.
C18_ContinueOnceAtStart ==
    /\ \A i \in 1..Len(cmds) :
           /\ IsStepping(cmds[i]) => cmds[1] = "Continue"
           /\ cmds[i] = "Continue" => i = 1
    /\ pc \in {"loop", "returning", "panicking", "crashed"} => cmds[1] = "Continue"
    /\ runReturn.returned => cmds[1] = "Continue"
    /\ (runReturn.returned /\ runReturn.cause = "start")
           => /\ runReturn.err = "failed starting execution"
              /\ ~last.acted
              /\ events = <<>>
              /\ Len(SelectSeq(cmds, IsStepping)) = 1
              /\ ret.returned
                     => /\ ret.err = "failed starting execution"
                        /\ ~ret.result.isNil
                        /\ ret.result.Events = <<>>
    /\ (state.Exited /\ nstops = 0)
           => /\ ~last.acted
              /\ events = <<>>
              /\ Len(SelectSeq(cmds, IsStepping)) = 1

\* C18 witness: the first continue failed and Trace returned its error with an
\* empty Result.
C18_Witness ==
    /\ runReturn.cause = "start"
    /\ ret.returned
    /\ ret.err = "failed starting execution"
    /\ ret.result.Events = <<>>
    /\ cmds[1] = "Continue"

\* Nothing has been created: no temp directory, no debug session, no command
\* to a debugger or the file system, no state of a target.
NoSideEffects ==
    /\ tempDir = "none"
    /\ session = "none"
    /\ cmds = <<>>
    /\ state = NoState
    /\ breakpoints = <<>>
    /\ logs = {}

\* C19: New fails for every Config with both an execution and a history file,
\* or with neither, and nothing has been created when it fails.
C19_IdentitySourceRequired ==
    (pc # "start" /\ (config.Execution <=> config.HistoryFile # ""))
        => /\ pc = "done"
           /\ ret.returned
           /\ ret.result.isNil
           /\ ret.err = IF config.Execution
                        THEN "cannot have both execution and history file"
                        ELSE "must have existing execution or history file"
           /\ NoSideEffects

\* C19 witness: New refused a Config with both identity sources.
C19_Witness ==
    /\ pc = "done"
    /\ config.Execution
    /\ config.HistoryFile # ""
    /\ ret.err = "cannot have both execution and history file"

HasDot(s) == \E i \in 1..Len(s) : Char(s, i) = "."

\* New has returned a Tracer.
NewSucceeded ==
    pc # "start"
        /\ ~(ret.returned /\ ret.err \in {"must have existing execution or history file",
                                          "cannot have both execution and history file",
                                          "single workflow function required",
                                          "workflow function missing dot"})

\* C20: New fails unless WorkflowFuncs holds exactly one descriptor with a dot;
\* on success the descriptor is split at its last dot: fnPkg, ".", fn make up
\* the descriptor and fn has no dot.
C20_DescriptorSplit ==
    /\ (pc # "start" /\ (Len(config.WorkflowFuncs) # 1 \/ ~HasDot(config.WorkflowFuncs[1])))
           => /\ pc = "done"
              /\ ret.returned
              /\ ret.result.isNil
              /\ ret.err # ""
              /\ NoSideEffects
    /\ NewSucceeded
           => /\ Len(config.WorkflowFuncs) = 1
              /\ HasDot(config.WorkflowFuncs[1])
              /\ tracer.fnPkg \o "." \o tracer.fn = config.WorkflowFuncs[1]
              /\ ~HasDot(tracer.fn)

\* C20 witness: a descriptor with several dots was split at the last one.
C20_Witness ==
    /\ NewSucceeded
    /\ config.WorkflowFuncs = <<"g.io/x/w.MyWorkflow">>
    /\ tracer.fnPkg = "g.io/x/w"
    /\ tracer.fn = "MyWorkflow"

-----------------------------------------------------------------------------
(* Properties of the source locator (checked under SpecTargets).             *)

\* The positions (1-based) at which frag occurs in text.
Occurrences(text, frag) ==
    {i \in 1..(Len(text) - Len(frag) + 1) : SubSeq(text, i, i + Len(frag) - 1) = frag}

\* The steps of the current Trace call that are the operation op.
Did(op) == {i \in 1..Len(steps) : steps[i].op = op}

\* The source files of the target the pattern of the k-th placement matches,
\* and the one it selects when there is only one.
Matching(k) ==
    {i \in 1..Len(target.Sources) :
        matchInternalPkg(target.Sources[i], Placements[k].fileRegex)}
Selected(k) == target.Sources[CHOOSE i \in Matching(k) : TRUE]

\* newTrace has just returned in this call, with or without an error.
SetupReturned ==
    /\ pc \in {"run", "done"}
    /\ ~runReturn.returned
    /\ Did("debugger.New") # {}

\* newTrace has returned an error of the k-th placement, a file-line one: the
\* session was created and the k-th is the first breakpoint not registered.
FailedPlacement(k) ==
    /\ pc = "done"
    /\ ret.returned
    /\ Did("debugger.New") # {}
    /\ ret.err # "failed creating debugger"
    /\ Placements[k].fileRegex # ""
    /\ Placements[k].id \notin DOMAIN breakpoints
    /\ \A j \in 1..(k - 1) : Placements[j].id \in DOMAIN breakpoints

\* The line the claim gives for the only occurrence of frag in text.
LineOfOccurrence(text, frag) ==
    Cardinality({n \in 1..((CHOOSE i \in Occurrences(text, frag) : TRUE) + Len(frag) - 1) :
                    Char(text, n) = "\n"}) + 1

\* The k-th placement has found one file, read it, and its text holds the
\* fragment n times.
Searched(k, n) ==
    /\ Cardinality(Matching(k)) = 1
    /\ target.Files[Selected(k)].ok
    /\ Cardinality(Occurrences(target.Files[Selected(k)].text, Placements[k].codeToMatch)) = n

\* C21: when newTrace returns, a file-line breakpoint is only registered for a
\* fragment that occurs once in the normalised text of its file (the text
\* without "\r\n" pairs), and its line is the number of "\n" in that text up to
\* the end of the fragment, plus one; when the fragment occurs once, the
\* breakpoint is requested at that line, and registered there unless the
\* backend rejects it.
C21_LineOfOnlyOccurrence ==
    \A k \in 2..Len(Placements) :
        /\ SetupReturned /\ Placements[k].id \in DOMAIN breakpoints
               => /\ Searched(k, 1)
                  /\ breakpoints[Placements[k].id].File = Selected(k)
                  /\ Occurrences(Cached(sourceCache, Selected(k)), "\r\n") = {}
                  /\ Len(Cached(sourceCache, Selected(k)))
                        = Len(target.Files[Selected(k)].text)
                            - Cardinality(Occurrences(target.Files[Selected(k)].text, "\r\n"))
                  /\ Cardinality(Occurrences(Cached(sourceCache, Selected(k)),
                                             Placements[k].codeToMatch)) = 1
                  /\ breakpoints[Placements[k].id].Line
                        = LineOfOccurrence(Cached(sourceCache, Selected(k)),
                                           Placements[k].codeToMatch)
        /\ FailedPlacement(k) /\ Searched(k, 1)
               => /\ ret.err = "CreateBreakpoint failed"
                  /\ \E i \in Did("CreateBreakpoint") :
                        /\ \A j \in Did("CreateBreakpoint") : j <= i
                        /\ steps[i].file = Selected(k)
                        /\ steps[i].line = LineOfOccurrence(Cached(sourceCache, Selected(k)),
                                                            Placements[k].codeToMatch)

\* The event-dispatch breakpoint of a file with "\r\n" line endings whose
\* fragment is on the third line has been registered at line 3, and the one of
\* the coroutine spawn at line 2 of the workflow file.
C21_Witness ==
    /\ target.tag = "crlf3"
    /\ BpProcessEvent \in DOMAIN breakpoints
    /\ breakpoints[BpProcessEvent].File = EventHandlersFile
    /\ breakpoints[BpProcessEvent].Line = 3
    /\ BpCoroutineSpawn \in DOMAIN breakpoints
    /\ breakpoints[BpCoroutineSpawn].Line = 2

\* C22: when the fragment of a placement occurs never or more than once in the
\* file it selected, newTrace fails with "cannot find matching code" for never
\* and "code found twice" for more than once, no breakpoint is requested for it
\* and the registry holds the earlier placements only.
C22_NoneOrSeveralOccurrences ==
    \A k \in 2..Len(Placements) :
        FailedPlacement(k) /\ ~Searched(k, 1) /\ Cardinality(Matching(k)) = 1
                /\ target.Files[Selected(k)].ok
            => /\ Searched(k, 0) => ret.err = "cannot find matching code"
               /\ ~Searched(k, 0) => ret.err = "code found twice"
               /\ ret.result.isNil
               /\ Cardinality(Did("CreateBreakpoint")) = k - 1
               /\ DOMAIN breakpoints = {Placements[j].id : j \in 1..(k - 1)}

\* Both errors have been returned: the not-found one for the second fragment
\* of the workflow file, after four placements, and the ambiguity one for a
\* fragment that occurs three times.
C22_Witness ==
    \/ /\ target.tag = "noyield"
       /\ FailedPlacement(5)
       /\ ret.err = "cannot find matching code"
       /\ Cardinality(DOMAIN breakpoints) = 4
    \/ /\ target.tag = "thrice"
       /\ FailedPlacement(2)
       /\ ret.err = "code found twice"

\* C23: when the pattern of a placement matches no source file or more than
\* one, newTrace fails with "unable to find file matching" for none and "both
\* match" for several; every file read and every breakpoint requested belongs
\* to an earlier placement.
C23_NoneOrSeveralFiles ==
    \A k \in 2..Len(Placements) :
        FailedPlacement(k) /\ Cardinality(Matching(k)) # 1
            => /\ Matching(k) = {} => ret.err = "unable to find file matching"
               /\ Matching(k) # {} => ret.err = "both match"
               /\ ret.result.isNil
               /\ \A i \in Did("ReadFile") :
                     \E j \in 1..(k - 1) :
                         /\ Placements[j].fileRegex # ""
                         /\ matchInternalPkg(steps[i].file, Placements[j].fileRegex)
               /\ Cardinality(Did("CreateBreakpoint")) = k - 1
               /\ DOMAIN breakpoints = {Placements[j].id : j \in 1..(k - 1)}

\* The pattern of the event-dispatch breakpoint matched two files of the
\* target, and Trace returned the ambiguity error without reading either.
C23_Witness ==
    /\ target.tag = "twofiles"
    /\ Cardinality(Matching(2)) = 2
    /\ FailedPlacement(2)
    /\ ret.err = "both match"
    /\ Did("ReadFile") = {}

-----------------------------------------------------------------------------
(* Properties of Tracer.Trace as a whole.                                    *)

\* The connection parameters are incomplete.
Incomplete == config.HostPort = "" \/ config.Namespace = ""

ConfigurationErrors ==
    {"failed building temp main.go: invalid client options: missing host:port",
     "failed building temp main.go: invalid client options: missing namespace"}

\* Trace has written main.go, run the build or created a debug session.
Built ==
    \/ Did("WriteFile") # {}
    \/ Did("go build") # {}
    \/ Did("debugger.New") # {}
    \/ session # "none"

\* C24 as stated: with incomplete connection parameters every Trace call fails
\* with a configuration error, without build, target or session.
C24_AlwaysConfigurationError ==
    Incomplete /\ calls > 0
        => /\ pc = "done"
           /\ ret.returned
           /\ ret.err \in ConfigurationErrors
           /\ ~Built

\* C24 (amended): with incomplete connection parameters Trace returns a nil
\* Result and an error without writing main.go, running the build or creating a
\* debug session; the error is the configuration error (host:port before
\* namespace) once the temp directory could be created and made absolute, and
\* the error of that step otherwise.
C24_ConfigurationErrorAfterTempDir ==
    Incomplete /\ calls > 0
        => /\ pc = "done"
           /\ ret.returned
           /\ ret.result.isNil
           /\ ~Built
           /\ Did("buildReplayMainCode") # {} /\ config.HostPort = ""
                 => ret.err = "failed building temp main.go: invalid client options: missing host:port"
           /\ Did("buildReplayMainCode") # {} /\ config.HostPort # ""
                 => ret.err = "failed building temp main.go: invalid client options: missing namespace"
           /\ Did("buildReplayMainCode") = {}
                 => ret.err \in {"failed creating temp dir", "could not turn dir absolute"}

\* Trace was called with an empty namespace, got its temp directory and
\* returned the configuration error.
C24_Witness ==
    /\ config.Namespace = ""
    /\ config.HostPort # ""
    /\ Did("buildReplayMainCode") # {}
    /\ ret.returned
    /\ ret.err = "failed building temp main.go: invalid client options: missing namespace"
    /\ ~Built

\* C25: once newTrace has run in a Trace call, the trace holds nothing of an
\* earlier call: its events are exactly those its own loop appended, every
\* name of the name table was shown at a coroutine-spawn stop of this run,
\* every cached source was read in this call, the registry holds no more
\* breakpoints than this call requested, and the Result returned holds exactly
\* the events of this run.
C25_RunOwnsItsState ==
    calls > 0 /\ Did("debugger.New") # {}
        => /\ events = last.produced
           /\ \A g \in DOMAIN coroutineNames :
                 [gid |-> g, name |-> coroutineNames[g]] \in last.shown
           /\ \A f \in DOMAIN sourceCache : \E i \in Did("ReadFile") : steps[i].file = f
           /\ Cardinality(DOMAIN breakpoints) <= Cardinality(Did("CreateBreakpoint"))
           /\ ret.returned /\ ~ret.result.isNil => ret.result.Events = last.produced

\* A second Trace call on a Tracer whose first run left events and a name for
\* goroutine 2 has returned a Result whose only event is a code step of
\* goroutine 2 without a name.
C25_Witness ==
    /\ calls = 2
    /\ last.earlier
    /\ ret.returned
    /\ ~ret.result.isNil
    /\ Len(ret.result.Events) = 1
    /\ IsCode(ret.result.Events[1])
    /\ ret.result.Events[1].Coroutine = ""
    /\ last.stop.GoroutineID = 2

-----------------------------------------------------------------------------
(* Properties of the trace command (checked under SpecCli).                  *)

\* The outputs the flags ask for; the stdout dump is asked for by --stdout or
\* by asking for no other output.
Requested(f) ==
    (IF f.OutputStdout \/ (f.OutputJSONFile = "" /\ f.OutputHTMLDir = "")
     THEN {"stdout"} ELSE {})
        \cup (IF f.OutputJSONFile # "" THEN {"json"} ELSE {})
        \cup (IF f.OutputHTMLDir # "" THEN {"html"} ELSE {})

Produced == {cli.did[i].out : i \in 1..Len(cli.did)}

\* The command has returned after a Trace call that returned an error together
\* with a Result that holds events.
FailedWithResult ==
    /\ pc = "exited"
    /\ cli.returned
    /\ calls > 0
    /\ ret.err # ""
    /\ ~ret.result.isNil
    /\ ret.result.Events # <<>>

Range(q) == {q[n] : n \in 1..Len(q)}

OutputRank(out) == IF out = "stdout" THEN 1 ELSE IF out = "json" THEN 2 ELSE 3

\* C26 as stated: after a failed replay with a non-empty Result every requested
\* output has been produced and the command returns the trace error.
C26_AllOutputsThenTraceError ==
    FailedWithResult
        => /\ Produced = Requested(cli.flags)
           /\ cli.err = "trace failed: " \o ret.err

\* C26 (amended): after a failed replay with a non-empty Result the requested
\* outputs are produced from that Result in the order stdout, JSON, HTML up to
\* the first one that fails; the command returns the trace error if none
\* failed, and otherwise the error of the failed output, with the outputs after
\* it not produced.
C26_OutputsUntilOneFails ==
    FailedWithResult
        => /\ Produced \subseteq Requested(cli.flags)
           /\ \A i, j \in 1..Len(cli.did) :
                 i < j => OutputRank(cli.did[i].out) < OutputRank(cli.did[j].out)
           /\ \A i \in 1..Len(cli.did) :
                 /\ cli.did[i].out # "stdout" => cli.did[i].content = ret.result.Events
                 /\ cli.did[i].out = "stdout"
                       => /\ \A l \in Range(cli.did[i].content) :
                                l.kind = "Code"
                                    => \E e \in Range(ret.result.Events) :
                                          /\ IsCode(e)
                                          /\ l.file = Base(goos, e.File)
                                          /\ l.line = e.Line
                                          /\ l.pkg = e.Package
                          /\ \A e \in Range(ret.result.Events) :
                                IsCode(e)
                                    => \E l \in Range(cli.did[i].content) :
                                          /\ l.kind = "Code"
                                          /\ l.file = Base(goos, e.File)
                                          /\ l.line = e.Line
           /\ "stdout" \in Requested(cli.flags) => "stdout" \in Produced
           /\ cli.err \in {"trace failed: " \o ret.err, "failed writing",
                            "failed generating HTML"}
           /\ cli.err = "trace failed: " \o ret.err <=> Produced = Requested(cli.flags)
           /\ cli.err = "failed writing"
                 => "json" \in Requested(cli.flags) /\ Produced \cap {"json", "html"} = {}
           /\ cli.err = "failed generating HTML"
                 => "html" \in Requested(cli.flags) /\ "html" \notin Produced
                    /\ ("json" \in Requested(cli.flags) => "json" \in Produced)

\* The command was asked for all three outputs, the replay failed after a code
\* step, and the command wrote all three and returned the trace error.
C26_Witness ==
    /\ FailedWithResult
    /\ Requested(cli.flags) = {"stdout", "json", "html"}
    /\ Produced = {"stdout", "json", "html"}
    /\ cli.err = "trace failed: " \o ret.err
    /\ IsCode(ret.result.Events[1])
    /\ \E l \in Range(cli.did[1].content) : l.kind = "Code" /\ l.file = "wf.go"

\* tracer.New has not been called.
NewNotCalled == ret = NotReturned /\ tracer = [fnPkg |-> "", fn |-> ""] /\ calls = 0

\* C27: flags with both a workflow ID and a history file, with neither, or
\* with a run ID and no workflow ID make the command return its own error
\* without tracer.New being called; for all other flags the tracer.Config has
\* an Execution exactly if it has no HistoryFile, the Execution for a workflow
\* ID and the HistoryFile otherwise.
C27_ExecutionOrHistory ==
    pc # "cli"
        => /\ cli.flags.WorkflowID # "" /\ cli.flags.HistoryFile # ""
                 => /\ pc = "exited" /\ NewNotCalled
                    /\ cli.err = "cannot have both workflow ID and history file"
           /\ cli.flags.WorkflowID = "" /\ cli.flags.RunID # ""
                 => /\ pc = "exited" /\ NewNotCalled
                    /\ cli.err = "cannot have run ID without workflow ID"
           /\ cli.flags.WorkflowID = "" /\ cli.flags.RunID = "" /\ cli.flags.HistoryFile = ""
                 => /\ pc = "exited" /\ NewNotCalled
                    /\ cli.err = "must have either workflow ID or history file"
           /\ ~NewNotCalled
                 => /\ config.Execution <=> config.HistoryFile = ""
                    /\ config.Execution <=> cli.flags.WorkflowID # ""
                    /\ config.HistoryFile = (IF cli.flags.WorkflowID # "" THEN ""
                                              ELSE cli.flags.HistoryFile)
           /\ (cli.flags.WorkflowID # "" /\ cli.flags.HistoryFile = ""
                   /\ \A i \in 1..Len(cli.flags.ExcludeFuncs) : Compiles(cli.flags.ExcludeFuncs[i]))
                 => config.Execution /\ config.HistoryFile = ""
           /\ (cli.flags.WorkflowID = "" /\ cli.flags.RunID = "" /\ cli.flags.HistoryFile # "")
                 => ~config.Execution /\ config.HistoryFile = cli.flags.HistoryFile

\* The command was given a run ID and a history file but no workflow ID and
\* returned its error without calling tracer.New.
C27_Witness ==
    /\ pc = "exited"
    /\ cli.flags.WorkflowID = ""
    /\ cli.flags.RunID # ""
    /\ cli.flags.HistoryFile # ""
    /\ cli.err = "cannot have run ID without workflow ID"
    /\ NewNotCalled

-----------------------------------------------------------------------------
(* Properties of the order of calls in a Trace call (checked under Spec).    *)

Handlers == {"onProcessEvent", "onReplayCommands", "populateCoroutineName"}

\* The last iteration was at a stop that hit a registered breakpoint with a
\* handler.
HitWithHandler ==
    /\ last.acted
    /\ last.stop.Breakpoint \in DOMAIN breakpoints
    /\ breakpoints[last.stop.Breakpoint].handler # Nil

Requests == SelectSeq(steps, LAMBDA st : st.op = "CreateBreakpoint")

\* newTrace has created the session in this call and returned.
SessionCreated ==
    /\ Did("debugger.New") # {}
    /\ ~(pc = "done" /\ ret.err = "failed creating debugger")

PlacementErrors ==
    {"CreateBreakpoint failed", "unable to find file matching", "both match",
     "failed reading", "cannot find matching code", "code found twice"}

\* C29 (checked under SpecTargets): the breakpoints are requested in the order
\* of newTrace, the workflow function first and the file-line breakpoints
\* after it, none twice; when a placement fails, by the locator or by the
\* backend, none after it is requested or registered, no command is issued
\* before Halt and Detach, and Trace returns a nil Result with the error of the
\* placement; the loop only starts with all five registered.
C29_PlacementsStopAtFirstFailure ==
    /\ Did("Continue") # {}
          => DOMAIN breakpoints = {Placements[j].id : j \in 1..Len(Placements)}
    /\ SetupReturned /\ SessionCreated
        => /\ Len(Requests) <= Len(Placements)
           /\ \A i \in 1..Len(Requests) :
                 IF Placements[i].fileRegex = ""
                 THEN Requests[i].file = tracer.fnPkg \o "." \o tracer.fn /\ Requests[i].line = 0
                 ELSE /\ matchInternalPkg(Requests[i].file, Placements[i].fileRegex)
                      /\ Requests[i].line > 0
           /\ \A i \in 1..Len(Placements) :
                 Placements[i].id \in DOMAIN breakpoints => i <= Len(Requests)
           /\ (\E k \in 1..Len(Placements) : Placements[k].id \notin DOMAIN breakpoints)
                 => /\ pc = "done"
                    /\ ret.returned
                    /\ ret.result.isNil
                    /\ ret.err \in PlacementErrors
                    /\ ret.err = "CreateBreakpoint failed"
                          <=> Len(Requests) = Cardinality(DOMAIN breakpoints) + 1
                    /\ ret.err # "CreateBreakpoint failed"
                          => Len(Requests) = Cardinality(DOMAIN breakpoints)
                    /\ DOMAIN breakpoints
                          = {Placements[j].id : j \in 1..Cardinality(DOMAIN breakpoints)}
                    /\ ~last.acted
                    /\ cmds = <<"Halt", "Detach">> \o [i \in 1..(Len(cmds) - 2) |-> "RemoveAll"]
                    /\ session = "closed"

\* The backend rejected the third breakpoint: two are registered, three were
\* requested, the session is closed and Trace returned a nil Result.
C29_Witness ==
    /\ SessionCreated
    /\ pc = "done"
    /\ ret.err = "CreateBreakpoint failed"
    /\ ret.result.isNil
    /\ DOMAIN breakpoints = {BpWorkflowStart, BpProcessEvent}
    /\ Len(Requests) = 3
    /\ session = "closed"
    /\ Did("Continue") = {}

\* C30 (checked under Spec): while Trace runs with a session, neither Halt nor
\* Detach has been issued; once Trace has returned or panicked with a session
\* created, Halt and Detach have each been issued exactly once, Detach right
\* after Halt, whether or not they failed; a call without a session issues
\* neither; and the Result and error returned after the run are those of the
\* run, whatever the teardown logged.
C30_TeardownOnceHaltThenDetach ==
    /\ pc \in {"run", "loop", "returning", "panicking"}
          => Did("Halt") = {} /\ Did("Detach") = {} /\ session = "open"
    /\ (pc \in {"done", "crashed"} /\ SessionCreated)
          => /\ Cardinality(Did("Halt")) = 1
             /\ Cardinality(Did("Detach")) = 1
             /\ \A h \in Did("Halt") : h + 1 \in Did("Detach")
             /\ session = "closed"
    /\ (pc = "done" /\ ~SessionCreated)
          => Did("Halt") = {} /\ Did("Detach") = {} /\ session = "none"
    /\ (pc = "done" /\ runReturn.returned)
          => /\ ret.err = runReturn.err
             /\ ret.result = Result(runReturn.events)

\* A run that ended cleanly was torn down with both Halt and Detach failing:
\* both were issued, both failures are in the log, and Trace returned the
\* Result without an error.
C30_Witness ==
    /\ pc = "done"
    /\ runReturn.returned
    /\ ret.err = ""
    /\ ~ret.result.isNil
    /\ ret.result.Events # <<>>
    /\ {"Failed halting", "Failed detaching"} \subseteq logs
    /\ \E h \in Did("Halt") : h + 1 \in Did("Detach")

-----------------------------------------------------------------------------
(* Properties of the registry, the loop's progress and the cleanup.          *)

\* The CreateBreakpoint requests among the calls s that the backend accepted,
\* when the call that made them returned err.
Accepted(s, err) ==
    LET req == SelectSeq(s, LAMBDA st : st.op = "CreateBreakpoint")
    IN  IF err = "CreateBreakpoint failed" THEN SubSeq(req, 1, Len(req) - 1) ELSE req

\* The registry that holds exactly the accepted requests acc, each under the
\* identifier the backend gave it and with the handler newTrace passed.
RegistryOf(acc) ==
    [id \in {Placements[i].id : i \in 1..Len(acc)} |->
        LET i == CHOOSE j \in 1..Len(acc) : Placements[j].id = id
        IN  [handler |-> Placements[i].handler, File |-> acc[i].file, Line |-> acc[i].line]]

\* C31 (checked under SpecTargets): when newTrace is over, the registry holds
\* exactly the breakpoints the backend accepted, each under the identifier the
\* backend assigned and with its handler, file and line; no step of trace.run
\* (the first continue, a loop iteration however it ends, the return or the
\* panic) and no step of the teardown changes the registry.
C31_RegistryFixedBySetup ==
    [][ /\ pc = "setup" => breakpoints' = RegistryOf(Accepted(steps', ret'.err))
        /\ pc \in {"run", "loop", "returning", "panicking"} => breakpoints' = breakpoints
      ]_vars

\* A run that hit a registered breakpoint with a handler has returned and the
\* registry still holds the five breakpoints of newTrace.
C31_Witness ==
    /\ pc = "done"
    /\ runReturn.returned
    /\ last.acted
    /\ last.stop.Breakpoint = BpCoroutineSpawn
    /\ last.outcome = "resumed"
    /\ DOMAIN breakpoints = {Placements[j].id : j \in 1..Len(Placements)}
    /\ breakpoints[BpCoroutineSpawn].handler = "populateCoroutineName"
    /\ breakpoints = RegistryOf(Accepted(steps, ret.err))

\* The iteration just executed was at a stop whose breakpoint is not in the
\* registry.
UnregisteredHit ==
    /\ last.acted
    /\ last.stop.Breakpoint # NoBreakpoint
    /\ last.stop.Breakpoint \notin DOMAIN breakpoints

\* C32 (checked under Spec, violated): a stop at a breakpoint that is not in the
\* registry is treated as a hit without a handler: the iteration does not
\* panic, appends nothing for the missing handler, and goes on to cancel-next
\* and to the resume command of the stop's classification.
C32_UnregisteredHitIsClassified ==
    UnregisteredHit
        => /\ last.outcome # "panic"
           /\ pc \notin {"panicking", "crashed"}
           /\ last.outcome \in {"resumed", "commandFailed"}
                 => /\ last.issued = NextInProgressCommands(last.stop)
                                         \o <<Classify(goos, last.stop, coroutineNames).command>>
                    /\ last.did = last.issued

\* C33 (checked under Spec, violated): every iteration that does not return an
\* error issues exactly one resume command.
C33_OneResumeUnlessError ==
    (last.acted /\ last.outcome \notin {"handlerError", "cancelFailed", "commandFailed"})
        => Len(Resumes(last)) = 1

\* C33 apart from the unregistered breakpoint (holds under Spec): a loop step
\* works on the current stop state; when it neither returns an error nor
\* panics it issues exactly one resume command, as the last command of the
\* iteration and after at most one cancel-next, and the stop state becomes
\* that command's answer, so the loop goes on with a state it has not yet
\* classified; an iteration whose resume command fails has issued that one
\* command; an iteration that ends on a handler error, a failed cancel-next or
\* the panic issues no resume command, leaves the stop state as it is and ends
\* the loop.  The loop is only ever at a state no iteration has worked on: the
\* resume commands answered so far are as many as the states reported.
C33_OneResumePerIteration ==
    [][ /\ pc = "loop"
           => Len(SelectSeq(cmds, IsResume)) = nstops + (IF state.Exited THEN 1 ELSE 0)
        /\ (pc = "loop" /\ last' # last)
           => /\ last'.acted
              /\ last'.stop = state
              /\ last'.outcome \in {"resumed", "commandFailed", "handlerError",
                                    "cancelFailed", "panic"}
              /\ cmds' = cmds \o last'.issued
              /\ last'.outcome \in {"resumed", "commandFailed"}
                    => /\ Len(Resumes(last')) = 1
                       /\ IsResume(last'.issued[Len(last'.issued)])
                       /\ Len(last'.issued) <= 2
                       /\ Len(last'.issued) = 2 => last'.issued[1] = "CancelNext"
              /\ last'.outcome \in {"handlerError", "cancelFailed", "panic"}
                    => /\ Resumes(last') = <<>>
                       /\ state' = state
              /\ last'.outcome = "resumed"
                    => /\ pc' = "loop"
                       /\ state' \in Responses(goos, nstops)
                       /\ nstops' = nstops + Count(state')
              /\ last'.outcome = "commandFailed"
                    => /\ runReturn'.returned
                       /\ runReturn'.err = CommandError(goos, state)
              /\ last'.outcome # "resumed" => pc' \in {"returning", "panicking"}
              /\ last'.outcome = "panic" <=> pc' = "panicking"
        /\ (pc = "loop" /\ pc' = "loop") => last' # last
      ]_vars

\* C33 witness: an iteration at a stop that interrupted a step in user code
\* issued cancel-next and one step, and the loop is at the next stop.
C33_Witness ==
    /\ pc = "loop"
    /\ last.acted
    /\ last.outcome = "resumed"
    /\ last.stop.NextInProgress
    /\ last.issued = <<"CancelNext", "Step">>
    /\ ~state.Exited
    /\ nstops = 2
    /\ Len(SelectSeq(cmds, IsResume)) = 2

\* C34 (checked under SpecFair, violated): once run has started it eventually
\* returns, with or without an error.
C34_RunEventuallyReturns == (pc = "run") ~> runReturn.returned

\* C34 apart from the unregistered breakpoint (holds under SpecFair): once run
\* has started, it eventually returns or is left by the panic: the loop has no
\* state in which it can neither end nor take a step, and no cycle.
C34_RunEventuallyEnds == (pc = "run") ~> (runReturn.returned \/ pc = "panicking")

\* Trace has returned or panicked after os.MkdirTemp created the temp dir.
LeftWithTempDir == pc \in {"done", "crashed"} /\ calls > 0 /\ tempDir # "none"

\* Every Halt and Detach of the call precedes its first os.RemoveAll.
TeardownBeforeRemoval ==
    \A r \in Did("RemoveAll") : \A c \in Did("Halt") \cup Did("Detach") : c < r

\* C35 (checked under Spec, violated): with RetainTempDir false, every path
\* that leaves Trace after the temp dir was created has attempted its removal,
\* and only after Halt and Detach; with RetainTempDir true no removal is ever
\* attempted.
C35_RemovalOnEveryReturn ==
    /\ (LeftWithTempDir /\ ~config.RetainTempDir)
          => Did("RemoveAll") # {} /\ TeardownBeforeRemoval
    /\ config.RetainTempDir => Did("RemoveAll") = {}

\* C35 apart from a failed filepath.Abs (holds under Spec): the same, for the
\* paths that leave Trace after the removal was deferred; while Trace is
\* still running nothing has been removed.
C35_RemovalOnceDeferred ==
    /\ (LeftWithTempDir /\ ~config.RetainTempDir /\ ret.err # "could not turn dir absolute")
          => /\ Did("RemoveAll") # {}
             /\ TeardownBeforeRemoval
             /\ SessionCreated => Did("Halt") # {} /\ Did("Detach") # {}
    /\ (LeftWithTempDir /\ ret.err = "could not turn dir absolute")
          => Did("RemoveAll") = {} /\ tempDir = "created"
    /\ config.RetainTempDir => Did("RemoveAll") = {} /\ tempDir # "removed"
    /\ pc \notin {"done", "crashed"} => Did("RemoveAll") = {}

\* Some pattern of the implied lists matches the stop's function or its
\* slash-normalised file.
ImpliedExcluded(os, st) ==
    \/ \E re \in ImpliedExcludeFuncs : PatternMatches(re, st.Function)
    \/ \E re \in ImpliedExcludeFiles(os) : PatternMatches(re, ToSlash(os, st.File))

\* The last iteration reached its resume command at a stop with a file: the
\* loop took the stop for excluded exactly when it appended no CodeStep.
Tested(it) == Classified(it) /\ it.stop.File # ""

\* C36 (checked under SpecExclusion, violated): the loop takes a stop for
\* excluded if and only if a pattern of ImpliedExcludeFuncs matches its
\* function or a pattern of ImpliedExcludeFiles matches its file.
C36_SameAsImpliedPatterns ==
    Tested(last) => (CodeSteps(last) = <<>> <=> ImpliedExcluded(goos, last.stop))

\* C36 apart from a GOROOT with a dot (holds under SpecExclusion): what the
\* loop takes for excluded the implied patterns match, the loop's own test is
\* the prefix test on the stop, the four function patterns agree with the
\* loop everywhere, and with a GOROOT of plain characters so does the file
\* pattern.
C36_ExcludedMatchesPattern ==
    Tested(last)
        => /\ CodeSteps(last) = <<>> <=> goStdOrTemporal(goos, last.stop)
           /\ CodeSteps(last) = <<>> => ImpliedExcluded(goos, last.stop)
           /\ (\E re \in ImpliedExcludeFuncs : PatternMatches(re, last.stop.Function))
                 <=> \/ HasPrefix(last.stop.Function, "go.temporal.io/sdk/")
                     \/ HasPrefix(last.stop.Function, "go.uber.org/atomic.")
                     \/ HasPrefix(last.stop.Function, "runtime.")
                     \/ last.stop.Function = "main.main"
           /\ goos # "darwin"
                 => (CodeSteps(last) = <<>> <=> ImpliedExcluded(goos, last.stop))

\* C37 (checked under SpecNew, violated): every descriptor New accepts splits
\* into a non-empty package and a non-empty function name; a descriptor with
\* nothing before or after its last dot is rejected.
C37_BothPartsNonEmpty ==
    /\ NewSucceeded => tracer.fnPkg # "" /\ tracer.fn # ""
    /\ (pc # "start" /\ Len(config.WorkflowFuncs) = 1
          /\ \/ HasPrefix(config.WorkflowFuncs[1], ".")
                   /\ LastIndex(config.WorkflowFuncs[1], ".") = 0
             \/ HasSuffix(config.WorkflowFuncs[1], "."))
          => pc = "done" /\ ret.err # ""

\* C37 apart from the empty parts (holds under SpecNew): New accepts exactly
\* the configurations with one identity source and a single descriptor that
\* has a dot; the package is the text before the last dot and the function
\* the text after it, which has no dot; either may be empty.
C37_SplitAtLastDot ==
    /\ pc # "start"
          => (NewSucceeded <=> /\ config.Execution <=> config.HistoryFile = ""
                           /\ Len(config.WorkflowFuncs) = 1
                           /\ Index(config.WorkflowFuncs[1], ".") # -1)
    /\ NewSucceeded
          => /\ tracer.fnPkg \o "." \o tracer.fn = config.WorkflowFuncs[1]
             /\ Index(tracer.fn, ".") = -1
    /\ pc = "done" => ret.returned /\ ret.result.isNil /\ ret.err # ""

\* The tables have a name for the kind, or a kind for the text.
DefinedKind(type, e) ==
    e \in DOMAIN (IF type = "EventServerType" THEN EventType_name ELSE CommandType_name)

DefinedName(type, text) ==
    text \in DOMAIN (IF type = "EventServerType" THEN EventType_value ELSE CommandType_value)

\* C38 (checked under SpecText): the text written for a defined event or
\* command kind reads back as that kind; neither MarshalText nor UnmarshalText
\* returns an error, whatever the kind or the text; a text that is not the
\* name of a kind of the type reads back as the zero kind.
C38_TextRoundTrip ==
    /\ wire.err = Nil
    /\ (pc = "decoded" /\ wire.marshalled /\ DefinedKind(wire.type, wire.e))
          => wire.back = wire.e
    /\ (pc = "decoded" /\ ~DefinedName(wire.type, wire.text)) => wire.back = 0

\* C38 witness: the command kind 1 was written as ScheduleActivityTask and
\* read back as 1; so was a text that is the name of an event type only, as 0.
C38_Witness ==
    /\ pc = "decoded"
    /\ wire.type = "EventClientCommandType"
    /\ \/ wire.marshalled /\ wire.e = 1 /\ wire.text = "ScheduleActivityTask" /\ wire.back = 1
       \/ ~wire.marshalled /\ wire.text = "WorkflowTaskScheduled" /\ wire.back = 0

\* The deferred removal ran and the temp dir is still there.
RemovalFailed == LeftWithTempDir /\ Did("RemoveAll") # {} /\ tempDir # "removed"

\* C39 apart from the warning (holds under Spec): os.RemoveAll is called at
\* most RemoveTries times, once on a platform other than windows, and on
\* windows a removal that failed was tried RemoveTries times.
C39_AttemptsBounded ==
    /\ Cardinality(Did("RemoveAll")) <= RemoveTries
    /\ goos # "windows" => Cardinality(Did("RemoveAll")) <= 1
    /\ (RemovalFailed /\ goos = "windows") => Cardinality(Did("RemoveAll")) = RemoveTries

\* C39 (checked under Spec, violated): with RetainTempDir false, when the
\* temp dir is still there after the last removal attempt, Trace has logged
\* the warning "Failed deleting temp dir"; the removal is tried at most
\* RemoveTries times and once on a platform other than windows.
C39_WarnsWhenRemovalFails ==
    /\ C39_AttemptsBounded
    /\ RemovalFailed => "Failed deleting temp dir" \in logs

====
